---- MODULE Spec2Model ----
(***************************************************************************)
(* Model of the yc-scout analytics pipeline: scoring (backend/scoring.py), *)
(* alert dispatch (backend/alerts.py), theme clustering                    *)
(* (backend/clustering.py), anomaly detection (backend/anomaly.py) and the *)
(* orchestrator (backend/pipeline.py) over the tables of backend/db.py.    *)
(*                                                                         *)
(* Time is counted in hours.  Timestamps (CURRENT_TIMESTAMP) are the value *)
(* of the clock `now` when the row is inserted.  Scores are computed in    *)
(* fixed point: 1 point = 1000 milli-points; weighted blends keep the full *)
(* numerator until the final round().                                      *)
(***************************************************************************)
EXTENDS Integers, Sequences, FiniteSets, TLC

\* ------------------------------------------------------------------------
\* Bounds of the model
\* ------------------------------------------------------------------------
MaxSnapshots == 2
MaxRunsAlerts == 2
MaxRunsAnomaly == 2
MaxRunsEmergence == 2
MaxRunsFaults == 2
MaxRunsMembers == 2
MaxRunsStars == 2
MaxRunsVelocity == 3
MaxRunsGate == 2
MaxBuilders == 12
MaxRunsJoin == 2
MaxSignals == 3
MaxClock == 49
MaxRequests == 3
MaxFaults == 1

\* ------------------------------------------------------------------------
\* State: the tables of db.py SCHEMA and the position of the running call
\* ------------------------------------------------------------------------
VARIABLES
    now,                \* wall clock, hours
    founders,           \* founders table: function id -> row
    founder_embeddings, \* founder_embeddings table: function founder_id -> row
    stats_snapshots,    \* stats_snapshots table, in insertion (id) order
    signals,            \* signals table
    scores,             \* scores table
    alert_log,          \* alert_log table
    themes,             \* themes table, themes[i].id = i
    founder_themes,     \* founder_themes table: set of <<founder_id, theme_id>>
    theme_history,      \* theme_history table
    emergence_events,   \* emergence_events table
    pc,                 \* position of run_pipeline
    queue,              \* what the loop at pc has still to iterate over
    run,                \* the counters and results of the current run_pipeline
    cur,                \* the locals of the call at pc
    last_alert,         \* what the most recent check_alerts call did
    last_cluster,       \* what the most recent cluster_founders call did
    log,                \* the errors the current run_pipeline has logged
    _cache,             \* api.py _cache, the entry of one list_founders key
    requests            \* the API requests: function request -> its position

vars == <<now, founders, founder_embeddings, stats_snapshots, signals, scores,
          alert_log, themes, founder_themes, theme_history, emergence_events,
          pc, queue, run, cur, last_alert, last_cluster, log, _cache,
          requests>>

\* the state of the API server
api == <<_cache, requests>>

obs == <<last_alert, last_cluster, log>>

tables == <<founders, founder_embeddings, stats_snapshots, signals, scores,
            alert_log, themes, founder_themes, theme_history, emergence_events>>

None == [none |-> TRUE]

Min(a, b) == IF a <= b THEN a ELSE b
Max(a, b) == IF a >= b THEN a ELSE b

RECURSIVE SumSeq(_)
SumSeq(s) == IF s = <<>> THEN 0 ELSE Head(s) + SumSeq(Tail(s))

\* ------------------------------------------------------------------------
\* scoring.py
\* ------------------------------------------------------------------------

\* DEFAULT_WEIGHTS, in hundredths
W_founder_quality == 30
W_execution_velocity == 25
W_market_conviction == 15
W_early_traction == 20
W_deal_availability == 10

DEFAULT_WEIGHTS ==
    [founder_quality |-> W_founder_quality,
     execution_velocity |-> W_execution_velocity,
     market_conviction |-> W_market_conviction,
     early_traction |-> W_early_traction,
     deal_availability |-> W_deal_availability]

Milli == 1000
CapMilli == 100 * Milli

\* math.log1p(v) in thousandths, rounded down, on the values the model feeds it
Log1pMilli ==
    (1 :> 693) @@ (2 :> 1098) @@ (3 :> 1386) @@ (4 :> 1609) @@ (5 :> 1791)
    @@ (6 :> 1945) @@ (7 :> 2079) @@ (8 :> 2197) @@ (9 :> 2302)
    @@ (10 :> 2397) @@ (11 :> 2484) @@ (12 :> 2564) @@ (13 :> 2639)
    @@ (14 :> 2708) @@ (15 :> 2772) @@ (16 :> 2833) @@ (20 :> 3044) @@ (25 :> 3258)
    @@ (30 :> 3433) @@ (50 :> 3931) @@ (84 :> 4442) @@ (85 :> 4454)
    @@ (99 :> 4605) @@ (100 :> 4615) @@ (114 :> 4744) @@ (115 :> 4753)
    @@ (120 :> 4795) @@ (199 :> 5298) @@ (200 :> 5303)
    @@ (300 :> 5707) @@ (500 :> 6216) @@ (800 :> 6685) @@ (1000 :> 6908)
    @@ (2000 :> 7601) @@ (4000 :> 8294) @@ (5000 :> 8517)
    @@ (15000 :> 9615) @@ (1000000 :> 13815) @@ (2000000 :> 14508)

\* _log_scale(value, baseline, cap=100), milli-points
LogScale(value, baseline) ==
    IF value <= 0 THEN 0
    ELSE Min((Log1pMilli[value] * 100 * Milli) \div Log1pMilli[baseline], CapMilli)

\* _linear_scale without the min(..., cap)
LinearScaleUncapped(value, max_val) ==
    IF max_val <= 0 THEN 0
    ELSE (value * 100 * Milli) \div max_val

\* _linear_scale(value, max_val, cap=100), milli-points
LinearScale(value, max_val) ==
    IF max_val <= 0 THEN 0
    ELSE Min((value * 100 * Milli) \div max_val, CapMilli)

\* str.lower() on the words of the model's vocabulary
Lower(w) ==
    CASE w = "PhD" -> "phd"
      [] w = "Ex-Google" -> "ex-google"
      [] w = "CTO" -> "cto"
      [] w = "OpenAI" -> "openai"
      [] w = "Fintech" -> "fintech"
      [] w = "MRR" -> "mrr"
      [] w = "Raised" -> "raised"
      [] w = "Pre-seed" -> "pre-seed"
      [] w = "Seed" -> "seed"
      [] w = "Series A" -> "series a"
      [] w = "Series B" -> "series b"
      [] w = "Bootstrapped" -> "bootstrapped"
      [] w = "Unknown" -> "unknown"
      [] OTHER -> w

LowerText(text) == {Lower(w) : w \in text}

\* proper substrings among the keywords and the vocabulary of the sample
\* texts: <<kw, w>> when keyword kw occurs inside word w
SubstringPairs ==
    {<<"ai", "openai">>, <<"ai", "raised">>, <<"arr", "carried">>,
     <<"cs", "logistics">>, <<"engineer", "staff engineer">>,
     <<"ex-", "ex-google">>}

\* Python `kw in text` for a text given as the set of its (lower-case) words
Contains(text, kw) ==
    \E w \in text : w = kw \/ <<kw, w>> \in SubstringPairs

\* _keyword_score(text, keywords, points_per_match, cap), in points
KeywordScore(text, keywords, points_per_match, cap) ==
    Min(points_per_match * Cardinality({kw \in keywords : Contains(text, kw)}), cap)

\* Python round() of n/unit: round half to even
Round(n, unit) ==
    LET q == n \div unit
        r == n % unit
    IN  IF 2 * r > unit THEN q + 1
        ELSE IF 2 * r < unit THEN q
        ELSE IF q % 2 = 0 THEN q ELSE q + 1

\* keyword tables of scoring.py
builder_keywords ==
    {"serial founder", "exits", "ex-google", "ex-meta", "ex-stripe",
     "ex-amazon", "ex-apple", "deepmind", "openai", "phd",
     "staff engineer", "principal", "tech lead", "engineering lead",
     "cto", "vp engineering", "yc", "y combinator"}

tech_kw == {"engineer", "developer", "phd", "cs", "ml", "ai", "compiler", "systems"}

biz_kw == {"mba", "business", "sales", "growth", "marketing", "operations",
           "strategy", "product"}

domain_keywords ==
    {"years in", "previously", "background in", "industry veteran",
     "phd", "researcher", "domain expert", "built at",
     "ex-", "former", "led", "advisor"}

specific_domains ==
    {"fintech", "health", "biotech", "infra", "devtools", "compiler",
     "payments", "security", "compliance", "logistics", "construction",
     "climate", "energy", "education", "legal", "proptech"}

revenue_keywords == {"mrr", "revenue", "arr", "$", "paying"}

fundraise_keywords == {"raised", "funding", "series", "round", "investment",
                       "backed by", "investor"}

\* score_founder_quality, before round(): units of 10^-7 point
score_founder_quality(stats, founder_info, sigs) ==
    LET bio == LowerText(founder_info.bio)
        commits == stats.github_commits_90d
        stars == stats.github_stars
        repos == stats.github_repos
        karma == stats.hn_karma
        submissions == stats.hn_submissions
        ph_launches == stats.ph_launches
        connections == founder_info.yc_alumni_connections
        followers == stats.followers
        technical == LogScale(commits, 300) * 40
                     + LogScale(stars, 2000) * 35
                     + LogScale(repos, 25) * 25
        distribution == LogScale(karma, 5000) * 40
                        + LogScale(submissions + ph_launches, 15) * 35
                        + LogScale(Len(sigs), 10) * 25
        history == KeywordScore(bio, builder_keywords, 12, 100)
        network == LinearScale(connections, 5) * 60
                   + LogScale(followers, 15000) * 40
        has_tech == \E kw \in tech_kw : Contains(bio, kw)
        has_biz == \E kw \in biz_kw : Contains(bio, kw)
        complementarity == IF has_tech /\ has_biz THEN 100
                           ELSE IF has_tech THEN 60
                           ELSE IF has_biz THEN 40 ELSE 20
    IN  technical * 30
        + distribution * 20
        + history * 100 * Milli * 20
        + network * 15
        + complementarity * 100 * Milli * 15

\* score_execution_velocity, before round(): units of 10^-5 point
score_execution_velocity(stats, sigs) ==
    LET commits == stats.github_commits_90d
        ph_launches == stats.ph_launches
        submissions == stats.hn_submissions
        strong_signals == Cardinality({i \in 1..Len(sigs) : sigs[i].strong})
        cadence == LogScale(commits, 300)
        iteration == LogScale(ph_launches + submissions, 15)
        density == LogScale(Len(sigs), 12)
        strong_ratio == LinearScale(strong_signals, 5)
    IN  cadence * 40 + iteration * 25 + density * 15 + strong_ratio * 20

\* score_market_conviction, before round(): units of 10^-7 point
score_market_conviction(stats, founder_info, sigs) ==
    LET bio == LowerText(founder_info.bio)
        domain == LowerText(founder_info.domain)
        karma == stats.hn_karma
        submissions == stats.hn_submissions
        writing_depth == LogScale(karma, 4000) * 60 + LogScale(submissions, 20) * 40
        expertise == KeywordScore(bio, domain_keywords, 15, 100)
        sources == {sigs[i].source : i \in 1..Len(sigs)} \ {""}
        presence == LinearScale(Cardinality(sources), 3)
        specificity ==
            Min(20 * Cardinality({d \in specific_domains :
                                    Contains(domain, d) \/ Contains(bio, d)}), 100)
    IN  writing_depth * 30
        + expertise * 100 * Milli * 25
        + presence * 100 * 20
        + specificity * 100 * Milli * 25

\* score_early_traction, before round(): units of 10^-5 point
score_early_traction(stats, sigs) ==
    LET stars == stats.github_stars
        hn_top == stats.hn_top_score
        ph_upvotes == stats.ph_upvotes
        strong_signals == Cardinality({i \in 1..Len(sigs) : sigs[i].strong})
        stars_score == LogScale(stars, 2000)
        hn_score == LogScale(hn_top, 500)
        ph_score == LogScale(ph_upvotes, 800)
        external_score == LinearScale(strong_signals, 5)
        revenue_signals ==
            Cardinality({i \in 1..Len(sigs) :
                \E kw \in revenue_keywords : Contains(LowerText(sigs[i].label), kw)})
        revenue_score == LinearScale(revenue_signals, 2)
    IN  stars_score * 25 + hn_score * 20 + ph_score * 20
        + external_score * 20 + revenue_score * 15

\* stage_scores.get(stage, 70)
stage_scores(stage) ==
    CASE stage = "pre-seed" -> 95
      [] stage = "bootstrapped" -> 90
      [] stage = "unknown" -> 80
      [] stage = "seed" -> 55
      [] stage = "series a" -> 20
      [] stage = "series b" -> 5
      [] OTHER -> 70

\* score_deal_availability, before round(): units of 10^-2 point
score_deal_availability(stats, founder_info, sigs) ==
    LET stage == Lower(founder_info.stage)
        followers == stats.followers
        stage_score == stage_scores(stage)
        fundraise_signals ==
            Cardinality({i \in 1..Len(sigs) :
                \E kw \in fundraise_keywords : Contains(LowerText(sigs[i].label), kw)})
        no_fundraise == Max(100 - fundraise_signals * 40, 0)
        profile_score == IF followers <= 1000 THEN 95
                         ELSE IF followers <= 5000 THEN 75
                         ELSE IF followers <= 15000 THEN 50
                         ELSE IF followers <= 50000 THEN 25 ELSE 10
        total_signals == Len(sigs)
        exposure_score == IF total_signals <= 2 THEN 90
                          ELSE IF total_signals <= 5 THEN 70
                          ELSE IF total_signals <= 10 THEN 45 ELSE 20
    IN  stage_score * 35 + no_fundraise * 25 + profile_score * 20
        + exposure_score * 20

\* stats = dict(latest_stats) if latest_stats else {}: every .get() gives 0
ZeroStats ==
    [github_stars |-> 0, github_commits_90d |-> 0, github_repos |-> 0,
     hn_karma |-> 0, hn_submissions |-> 0, hn_top_score |-> 0,
     ph_upvotes |-> 0, ph_launches |-> 0, followers |-> 0]

\* round() of a double computed from terms that are not exactly
\* representable (0.30, 0.15, ...): when the exact value n/unit lies halfway
\* between two integers the double lies on either side of it or on it, so
\* both neighbours are possible results; otherwise the nearest integer
RoundFloat(n, unit) ==
    LET q == n \div unit
        r == n % unit
    IN  IF 2 * r > unit THEN {q + 1}
        ELSE IF 2 * r < unit THEN {q}
        ELSE {q, q + 1}

\* composite = round(sum(scores[k] * weights[k] for k in weights))
Composite(fq, ev, mc, et, da) ==
    RoundFloat(fq * DEFAULT_WEIGHTS.founder_quality
               + ev * DEFAULT_WEIGHTS.execution_velocity
               + mc * DEFAULT_WEIGHTS.market_conviction
               + et * DEFAULT_WEIGHTS.early_traction
               + da * DEFAULT_WEIGHTS.deal_availability, 100)

\* the scores dicts score_founder can compute from the stats row (or None),
\* the founder row and the founder's signals
ComputeScores(latest_stats, founder_info, signals_list) ==
    LET stats == IF latest_stats = None THEN ZeroStats ELSE latest_stats
        FQ == RoundFloat(score_founder_quality(stats, founder_info, signals_list), 10000000)
        EV == RoundFloat(score_execution_velocity(stats, signals_list), 100000)
        MC == RoundFloat(score_market_conviction(stats, founder_info, signals_list), 10000000)
        ET == RoundFloat(score_early_traction(stats, signals_list), 100000)
        DA == RoundFloat(score_deal_availability(stats, founder_info, signals_list), 100)
    IN  UNION {{[founder_quality |-> t[1], execution_velocity |-> t[2],
                 market_conviction |-> t[3], early_traction |-> t[4],
                 deal_availability |-> t[5], composite |-> c] :
                    c \in Composite(t[1], t[2], t[3], t[4], t[5])} :
               t \in FQ \X EV \X MC \X ET \X DA}

\* ------------------------------------------------------------------------
\* db.py: rows and queries
\* ------------------------------------------------------------------------

\* save_stats: INSERT INTO stats_snapshots; columns not given default to 0
StatsRow(founder_id, stats, captured_at) ==
    [founder_id |-> founder_id, captured_at |-> captured_at,
     github_stars |-> stats.github_stars,
     github_commits_90d |-> stats.github_commits_90d,
     github_repos |-> stats.github_repos,
     hn_karma |-> stats.hn_karma,
     hn_submissions |-> stats.hn_submissions,
     hn_top_score |-> stats.hn_top_score,
     ph_upvotes |-> stats.ph_upvotes,
     ph_launches |-> stats.ph_launches,
     followers |-> stats.followers]

\* a signals row
SignalRow(founder_id, sig, detected_at) ==
    [founder_id |-> founder_id, source |-> sig.source, label |-> sig.label,
     strong |-> sig.strong, detected_at |-> detected_at]

\* save_score: INSERT INTO scores
ScoreRow(founder_id, sc, scored_at) ==
    [founder_id |-> founder_id, scored_at |-> scored_at,
     founder_quality |-> sc.founder_quality,
     execution_velocity |-> sc.execution_velocity,
     market_conviction |-> sc.market_conviction,
     early_traction |-> sc.early_traction,
     deal_availability |-> sc.deal_availability,
     composite |-> sc.composite]

\* indices of the rows of a table that belong to a founder
RowsOf(tbl, founder_id) == {i \in 1..Len(tbl) : tbl[i].founder_id = founder_id}

\* get_latest_stats: ORDER BY captured_at DESC LIMIT 1.  Rows with the same
\* captured_at are in no specified order: every row with the greatest
\* captured_at is a possible answer; None when the founder has no row.
get_latest_stats(founder_id) ==
    LET idx == RowsOf(stats_snapshots, founder_id)
    IN  IF idx = {} THEN {None}
        ELSE {stats_snapshots[i] : i \in
                {j \in idx : \A k \in idx :
                    stats_snapshots[k].captured_at <= stats_snapshots[j].captured_at}}

\* pipeline.py: SELECT source, label, strong FROM signals WHERE founder_id = ?
SignalsOf(founder_id) ==
    SelectSeq(signals, LAMBDA r : r.founder_id = founder_id)

\* get_previous_score: ORDER BY scored_at DESC LIMIT 2, rows[1] or None.
\* Rows with the same scored_at are in no specified order: every row that
\* can come second is a possible answer.
get_previous_score(founder_id) ==
    LET idx == RowsOf(scores, founder_id)
        at(i) == scores[i].scored_at
    IN  IF Cardinality(idx) < 2 THEN {None}
        ELSE {scores[i] : i \in
                {j \in idx :
                    /\ Cardinality({k \in idx : at(k) > at(j)}) <= 1
                    /\ Cardinality({k \in idx : at(k) >= at(j)}) >= 2}}

\* the ScoreRecords of one founder, oldest first: save_score only appends
ScoreHistory(founder_id) ==
    SelectSeq(scores, LAMBDA r : r.founder_id = founder_id)

\* ------------------------------------------------------------------------
\* config.py and alerts.py
\* ------------------------------------------------------------------------
ALERT_SCORE_THRESHOLD == 85
ALERT_MOMENTUM_SPIKE == 15

HighScore == "High Score Threshold"
VelocitySpike == "Execution Velocity Spike"

\* What one delivery attempt does:
\*   "sent"         the send returns True and log_alert inserts the row
\*   "sent_logfail" the send returns True and log_alert raises
\*   "fail"         the send returns False (not configured, or the error is
\*                  caught inside _send_slack / _send_email)
\*   "raise"        httpx.post raises something that is not an httpx.HTTPError
\*                  (_send_slack only; _send_email catches every Exception)
SlackOutcomes == {"sent", "sent_logfail", "fail", "raise"}
EmailOutcomes == {"sent", "sent_logfail", "fail"}

\* the environment of one check_alerts call: an outcome per trigger and channel
AlertEnvs ==
    [slack1 : SlackOutcomes, email1 : EmailOutcomes,
     slack2 : SlackOutcomes, email2 : EmailOutcomes]

\* if _send_x(...): log_alert(...); alerts_sent += 1     (one channel)
DeliverCountingAttempts(acc, founder_id, alert_type, channel, outcome) ==
    IF acc.raised THEN acc
    ELSE [entries |-> IF outcome = "sent"
                      THEN Append(acc.entries,
                                  [founder_id |-> founder_id,
                                   alert_type |-> alert_type,
                                   channel |-> channel, sent_at |-> now])
                      ELSE acc.entries,
          attempts |-> Append(acc.attempts, <<alert_type, channel>>),
          delivered |-> IF outcome \in {"sent", "sent_logfail"}
                        THEN Append(acc.delivered, <<alert_type, channel>>)
                        ELSE acc.delivered,
          alerts_sent |-> acc.alerts_sent + 1,
          raised |-> outcome \in {"raise", "sent_logfail"}]

Deliver(acc, founder_id, alert_type, channel, outcome) ==
    IF acc.raised THEN acc
    ELSE [entries |-> IF outcome = "sent"
                      THEN Append(acc.entries,
                                  [founder_id |-> founder_id,
                                   alert_type |-> alert_type,
                                   channel |-> channel, sent_at |-> now])
                      ELSE acc.entries,
          attempts |-> Append(acc.attempts, <<alert_type, channel>>),
          delivered |-> IF outcome \in {"sent", "sent_logfail"}
                        THEN Append(acc.delivered, <<alert_type, channel>>)
                        ELSE acc.delivered,
          alerts_sent |-> IF outcome = "sent" THEN acc.alerts_sent + 1
                          ELSE acc.alerts_sent,
          raised |-> outcome \in {"raise", "sent_logfail"}]

\* the body of one trigger: Slack first, then email
DeliverBoth(acc, founder_id, alert_type, slack, email) ==
    Deliver(Deliver(acc, founder_id, alert_type, "slack", slack),
            founder_id, alert_type, "email", email)

Trigger1NoCrossing(sc, prev) ==
    sc.composite >= ALERT_SCORE_THRESHOLD

Trigger1Fires(sc, prev) ==
    /\ sc.composite >= ALERT_SCORE_THRESHOLD
    /\ (prev = None \/ prev.composite < ALERT_SCORE_THRESHOLD)

Trigger2Fires(sc, prev) ==
    /\ prev # None
    /\ sc.execution_velocity - prev.execution_velocity >= ALERT_MOMENTUM_SPIKE

\* check_alerts(conn, founder_id, name, handle, scores, log_alert): the rows
\* it appends to alert_log, the deliveries it attempts, its count, and
\* whether it raised.  prev is the answer of get_previous_score.
check_alerts(founder_id, sc, prev, env) ==
    LET acc0 == [entries |-> <<>>, attempts |-> <<>>, delivered |-> <<>>,
                 alerts_sent |-> 0, raised |-> FALSE]
        acc1 == IF Trigger1Fires(sc, prev)
                THEN DeliverBoth(acc0, founder_id, HighScore, env.slack1, env.email1)
                ELSE acc0
        acc2 == IF ~acc1.raised /\ Trigger2Fires(sc, prev)
                THEN DeliverBoth(acc1, founder_id, VelocitySpike, env.slack2, env.email2)
                ELSE acc1
    IN  acc2

\* ------------------------------------------------------------------------
\* clustering.py
\* ------------------------------------------------------------------------
MIN_CLUSTER_SIZE == 3
DAYS_7 == 168

Range(f) == {f[x] : x \in DOMAIN f}

SetMin(S) == CHOOSE x \in S : \A y \in S : x <= y

\* a set of disjoint non-empty sets of founder ids as a sequence, in the
\* order in which their first member appears among the founder ids
RECURSIVE InIdOrder(_)
InIdOrder(groups) ==
    IF groups = {} THEN <<>>
    ELSE LET first == CHOOSE g \in groups :
                        \A h \in groups : SetMin(g) <= SetMin(h)
         IN  <<first>> \o InIdOrder(groups \ {first})

\* sklearn HDBSCAN(min_cluster_size=3).fit_predict on the stored vectors,
\* grouped by label as cluster_founders does: founders with the same vector
\* are one cluster when there are at least MIN_CLUSTER_SIZE of them, every
\* other founder is noise (label -1)
Clusters(emb) ==
    LET groups == {{f \in DOMAIN emb : emb[f].vector = v} :
                        v \in {emb[g].vector : g \in DOMAIN emb}}
    IN  InIdOrder({g \in groups : Cardinality(g) >= MIN_CLUSTER_SIZE})

\* variant: more than half of the members must overlap
EnoughOverlapStrict(overlap, size) ==
    2 * overlap > size

\* rows["overlap"] >= len(member_ids) * 0.5
EnoughOverlap(overlap, size) ==
    2 * overlap >= size

\* _find_matching_theme: the theme with the greatest member overlap
\* (GROUP BY theme_id ORDER BY overlap DESC LIMIT 1), kept when the overlap
\* is at least half the members.  Among themes with the same overlap SQLite
\* returns the one with the greatest id (the groups leave the GROUP BY
\* b-tree in ascending theme_id and the descending sort reverses them).
_find_matching_theme_none(member_ids) == 0

_find_matching_theme(member_ids) ==
    LET overlap(t) == Cardinality({f \in member_ids : <<f, t>> \in founder_themes})
        hit == {t \in 1..Len(themes) : overlap(t) > 0}
        top == {t \in hit : \A u \in hit : overlap(u) <= overlap(t)}
        best == CHOOSE t \in top : \A u \in top : u <= t
    IN  IF member_ids = {} \/ hit = {} THEN 0
        ELSE IF EnoughOverlap(overlap(best), Cardinality(member_ids))
             THEN best ELSE 0

\* rows of theme_history of a theme that ORDER BY captured_at DESC LIMIT 1
\* can return, among the rows captured strictly before `before`
LatestHistory(theme_id, before) ==
    LET idx == {i \in 1..Len(theme_history) :
                    /\ theme_history[i].theme_id = theme_id
                    /\ theme_history[i].captured_at < before}
    IN  IF idx = {} THEN {None}
        ELSE {theme_history[i] : i \in
                {j \in idx : \A k \in idx :
                    theme_history[k].captured_at <= theme_history[j].captured_at}}

\* variant: the count term taken per builder
CountScorePerBuilder(count) ==
    IF count = 0 THEN 0
    ELSE Min((Log1pMilli[count] * 80 * Milli) \div Log1pMilli[10],
             80 * Milli) \div count

\* count_score = min(log1p(count) / log1p(10) * 80, 80), milli-points
CountScore(count) ==
    IF count = 0 THEN 0
    ELSE Min((Log1pMilli[count] * 80 * Milli) \div Log1pMilli[10], 80 * Milli)

\* round(count_score + velocity_score + growth_score)
EmergenceTotal(count_score, velocity_score, growth_score) ==
    Round(count_score + velocity_score + growth_score, Milli)

\* _compute_emergence_score, with `prior` the row its theme_history query
\* returned
_compute_emergence_score(founder_ids, prior) ==
    LET count == Cardinality(founder_ids)
        count_score == CountScore(count)
        recent_signals ==
            Cardinality({i \in 1..Len(signals) :
                            /\ signals[i].founder_id \in founder_ids
                            /\ signals[i].detected_at > now - DAYS_7})
        velocity_score == IF founder_ids # {}
                          THEN Min((recent_signals * 10 * Milli) \div Max(count, 1),
                                   40 * Milli)
                          ELSE 0
        growth_score ==
            IF prior # None /\ prior.builder_count > 0
            THEN Min(Max(((count - prior.builder_count) * 100 * Milli)
                            \div prior.builder_count, 0), 30 * Milli)
            ELSE 15 * Milli
    IN  EmergenceTotal(count_score, velocity_score, growth_score)

\* _compute_weekly_velocity, in thousandths, with `prior` the row its query
\* returned
_compute_weekly_velocity(current_count, prior) ==
    IF prior # None /\ prior.builder_count # 0
    THEN ((current_count - prior.builder_count) * Milli) \div prior.builder_count
    ELSE 0

\* ------------------------------------------------------------------------
\* anomaly.py
\* ------------------------------------------------------------------------
COMMIT_VELOCITY_MULTIPLIER == 2
COMMIT_MIN_BASE == 5
STAR_SPIKE_MIN == 15
STAR_SPIKE_MAX_BASE == 100
HN_SCORE_SPIKE == 100
WINDOW_DEFAULT == 24
WINDOW_NEW_THEME == 72
NEW_THEME_HOURS == 24

\* _get_latest_snapshot and _get_prior_snapshot: the first and the second
\* row of ORDER BY captured_at DESC; both queries walk the same order, rows
\* with equal captured_at are in no specified order.  <<latest, prior>>
\* pairs, with None for a missing row.
SnapshotPairs(founder_id) ==
    LET idx == RowsOf(stats_snapshots, founder_id)
        at(i) == stats_snapshots[i].captured_at
        tops(S) == {j \in S : \A k \in S : at(k) <= at(j)}
    IN  IF idx = {} THEN {<<None, None>>}
        ELSE IF Cardinality(idx) = 1
             THEN {<<stats_snapshots[i], None>> : i \in idx}
             ELSE UNION {{<<stats_snapshots[i], stats_snapshots[j]>> :
                            j \in tops(idx \ {i})} : i \in tops(idx)}

\* _already_fired: detected_at > datetime('now', '-<window> hours')
_already_fired_never(events, entity_id, entity_type, event_type, window_hours) ==
    FALSE

_already_fired(events, entity_id, entity_type, event_type, window_hours) ==
    \E i \in 1..Len(events) :
        /\ events[i].entity_id = entity_id
        /\ events[i].entity_type = entity_type
        /\ events[i].event_type = event_type
        /\ events[i].detected_at > now - window_hours

\* _fire_event: INSERT INTO emergence_events
_fire_event(events, event_type, entity_id, entity_type, before, after) ==
    Append(events, [event_type |-> event_type, entity_id |-> entity_id,
                    entity_type |-> entity_type, delta_before |-> before,
                    delta_after |-> after, detected_at |-> now])

_check_commit_velocity_any_base(events, founder_id, latest, prior) ==
    LET now_commits == latest.github_commits_90d
        prior_commits == prior.github_commits_90d
    IN  IF /\ now_commits >= COMMIT_VELOCITY_MULTIPLIER * prior_commits
           /\ ~_already_fired(events, founder_id, "founder", "commit_spike",
                              WINDOW_DEFAULT)
        THEN _fire_event(events, "commit_spike", founder_id, "founder",
                         prior_commits, now_commits)
        ELSE events

_check_commit_velocity(events, founder_id, latest, prior) ==
    LET now_commits == latest.github_commits_90d
        prior_commits == prior.github_commits_90d
    IN  IF prior_commits < COMMIT_MIN_BASE THEN events
        ELSE IF /\ now_commits >= COMMIT_VELOCITY_MULTIPLIER * prior_commits
                /\ ~_already_fired(events, founder_id, "founder", "commit_spike",
                                   WINDOW_DEFAULT)
             THEN _fire_event(events, "commit_spike", founder_id, "founder",
                              prior_commits, now_commits)
             ELSE events

\* variant: the gain must exceed STAR_SPIKE_MIN
_check_star_spike_strict(events, founder_id, latest, prior) ==
    LET now_stars == latest.github_stars
        prior_stars == prior.github_stars
        gained == now_stars - prior_stars
    IN  IF /\ gained > STAR_SPIKE_MIN
           /\ prior_stars < STAR_SPIKE_MAX_BASE
           /\ ~_already_fired(events, founder_id, "founder", "star_spike",
                              WINDOW_DEFAULT)
        THEN _fire_event(events, "star_spike", founder_id, "founder",
                         prior_stars, now_stars)
        ELSE events

_check_star_spike(events, founder_id, latest, prior) ==
    LET now_stars == latest.github_stars
        prior_stars == prior.github_stars
        gained == now_stars - prior_stars
    IN  IF /\ gained >= STAR_SPIKE_MIN
           /\ prior_stars < STAR_SPIKE_MAX_BASE
           /\ ~_already_fired(events, founder_id, "founder", "star_spike",
                              WINDOW_DEFAULT)
        THEN _fire_event(events, "star_spike", founder_id, "founder",
                         prior_stars, now_stars)
        ELSE events

\* variant: an hn_spike event of any age suppresses the next one
_check_hn_spike_once(events, founder_id, latest, prior) ==
    LET now_top == latest.hn_top_score
        prior_top == prior.hn_top_score
    IN  IF /\ now_top >= HN_SCORE_SPIKE
           /\ now_top > prior_top
           /\ ~_already_fired(events, founder_id, "founder", "hn_spike",
                              now + 1)
        THEN _fire_event(events, "hn_spike", founder_id, "founder",
                         prior_top, now_top)
        ELSE events

_check_hn_spike(events, founder_id, latest, prior) ==
    LET now_top == latest.hn_top_score
        prior_top == prior.hn_top_score
    IN  IF /\ now_top >= HN_SCORE_SPIKE
           /\ now_top > prior_top
           /\ ~_already_fired(events, founder_id, "founder", "hn_spike",
                              WINDOW_DEFAULT)
        THEN _fire_event(events, "hn_spike", founder_id, "founder",
                         prior_top, now_top)
        ELSE events

FounderChecksCrossing(events, founder_id, latest, prior) ==
    LET h == ScoreHistory(founder_id)
        n == Len(h)
    IN  IF n >= 2 /\ h[n - 1].composite < 60 /\ h[n].composite >= 60
        THEN _fire_event(events, "score_cross", founder_id, "founder",
                         h[n - 1].composite, h[n].composite)
        ELSE events

\* the body of the per-founder loop of detect_anomalies
FounderChecks(events, founder_id, latest, prior) ==
    IF latest = None \/ prior = None THEN events
    ELSE _check_hn_spike(
             _check_star_spike(
                 _check_commit_velocity(events, founder_id, latest, prior),
                 founder_id, latest, prior),
             founder_id, latest, prior)

RECURSIVE _check_new_themes(_, _)
RECURSIVE _check_new_themes_any_age(_, _)
\* variant: a theme of any age fires when no event is in the window
_check_new_themes_any_age(events, t) ==
    IF t > Len(themes) THEN events
    ELSE IF ~_already_fired(events, t, "theme", "new_theme", WINDOW_NEW_THEME)
         THEN _check_new_themes_any_age(
                  _fire_event(events, "new_theme", t, "theme", None,
                              themes[t].builder_count), t + 1)
         ELSE _check_new_themes_any_age(events, t + 1)

\* _check_new_themes over the themes t..Len(themes), in table order
_check_new_themes(events, t) ==
    IF t > Len(themes) THEN events
    ELSE IF /\ themes[t].first_detected > now - NEW_THEME_HOURS
            /\ ~_already_fired(events, t, "theme", "new_theme", WINDOW_NEW_THEME)
         THEN _check_new_themes(
                  _fire_event(events, "new_theme", t, "theme", None,
                              themes[t].builder_count), t + 1)
         ELSE _check_new_themes(events, t + 1)

\* variant: the growth must exceed one half
ThemeVelocityCheckStrict(events, t, prior) ==
    IF prior = None \/ prior.builder_count = 0 THEN events
    ELSE LET current == themes[t].builder_count
         IN  IF /\ 2 * (current - prior.builder_count) > prior.builder_count
                /\ ~_already_fired(events, t, "theme", "theme_spike",
                                   WINDOW_DEFAULT)
             THEN _fire_event(events, "theme_spike", t, "theme",
                              prior.builder_count, current)
             ELSE events

\* the body of the loop of _check_theme_velocity for one theme, with `prior`
\* the row its theme_history query returned
ThemeVelocityCheck(events, t, prior) ==
    IF prior = None \/ prior.builder_count = 0 THEN events
    ELSE LET current == themes[t].builder_count
         IN  IF /\ 2 * (current - prior.builder_count) >= prior.builder_count
                /\ ~_already_fired(events, t, "theme", "theme_spike",
                                   WINDOW_DEFAULT)
             THEN _fire_event(events, "theme_spike", t, "theme",
                              prior.builder_count, current)
             ELSE events

\* ------------------------------------------------------------------------
\* pipeline.py: run_pipeline, one action per call or loop iteration
\* ------------------------------------------------------------------------

\* the ids of a set, ascending, as the list a SELECT over the table returns
RECURSIVE IdSeq(_)
IdSeq(S) == IF S = {} THEN <<>>
            ELSE <<SetMin(S)>> \o IdSeq(S \ {SetMin(S)})

\* the counters of run_pipeline; n numbers the runs, saves counts the
\* save_stats calls of the run
NoRun == [n |-> 0, saves |-> 0, founders_scraped |-> 0, founders_scored |-> 0,
          alerts_sent |-> 0, returned |-> <<>>, themes |-> 0, anomalies |-> 0,
          begin |-> None]

\* what the tables written by Phases 1.6 to 3.7 hold when a run begins
TablesAtBegin ==
    [themes |-> themes, founder_themes |-> founder_themes,
     theme_history |-> theme_history, scores |-> scores,
     alert_log |-> alert_log, emergence_events |-> emergence_events]

NoCall == [fid |-> 0, scores |-> None, before |-> 0, themes_upserted |-> 0,
           assigned |-> {}, evaluated |-> {}]

\* run_pipeline is entered: counters at 0, Phase 1 begins
StartRun(max_runs) ==
    /\ pc = "idle"
    /\ run.n < max_runs
    /\ pc' = "scrape"
    /\ run' = [NoRun EXCEPT !.n = run.n + 1, !.begin = TablesAtBegin]
    /\ cur' = NoCall
    /\ log' = <<>>
    /\ UNCHANGED <<api, now, tables, queue, last_alert, last_cluster>>

\* a scraper (Phase 1) calls save_stats for a known founder
SaveStats(founder_id, stats) ==
    /\ pc = "scrape"
    /\ founder_id \in DOMAIN founders
    /\ Len(stats_snapshots) < MaxSnapshots
    /\ stats_snapshots' = Append(stats_snapshots, StatsRow(founder_id, stats, now))
    /\ run' = [run EXCEPT !.saves = @ + 1]
    /\ UNCHANGED <<api, now, founders, founder_embeddings, signals, scores, alert_log,
                   themes, founder_themes, theme_history, emergence_events,
                   pc, queue, cur, obs>>

\* a scraper finds a known founder again: upsert_founder updates the row
UpdateFounder(founder_id, company) ==
    /\ pc = "scrape"
    /\ founder_id \in DOMAIN founders
    /\ founders[founder_id].company # company
    /\ founders' = [founders EXCEPT ![founder_id].company = company]
    /\ UNCHANGED <<api, now, founder_embeddings, stats_snapshots, signals, scores,
                   alert_log, themes, founder_themes, theme_history,
                   emergence_events, pc, queue, run, cur, obs>>

\* the `with get_db()` block of Phase 1 ends
EndScrape ==
    /\ pc = "scrape"
    /\ pc' = "embed"
    /\ UNCHANGED <<api, now, tables, queue, run, cur, obs>>

\* embedder.py _build_founder_text: what the embedding is computed from
FounderText(founder_id) ==
    [bio |-> founders[founder_id].bio, domain |-> founders[founder_id].domain,
     company |-> founders[founder_id].company,
     labels |-> {signals[i].label : i \in RowsOf(signals, founder_id)}]

EmptyText == [bio |-> {}, domain |-> {}, company |-> {}, labels |-> {}]

\* Phase 1.5, embed_all_founders: every founder whose text is not empty and
\* whose stored content_hash differs gets a new embedding; when the batch call
\* fails (ok = FALSE) nothing is stored.  The vector is a function of the text.
EmbedAll(ok) ==
    /\ pc = "embed"
    /\ LET to_embed == {f \in DOMAIN founders :
                          /\ FounderText(f) # EmptyText
                          /\ \/ f \notin DOMAIN founder_embeddings
                             \/ founder_embeddings[f].content_hash # FounderText(f)}
           fresh == [f \in to_embed |->
                        [vector |-> FounderText(f), content_hash |-> FounderText(f)]]
       IN  founder_embeddings' = IF ok THEN fresh @@ founder_embeddings
                                 ELSE founder_embeddings
    /\ pc' = "cluster"
    /\ UNCHANGED <<api, now, founders, stats_snapshots, signals, scores, alert_log,
                   themes, founder_themes, theme_history, emergence_events,
                   queue, run, cur, obs>>

\* Phase 1.6, cluster_founders with fewer than MIN_CLUSTER_SIZE embeddings:
\* returns 0 before touching any table
ClusterTooFew ==
    /\ pc = "cluster"
    /\ Cardinality(DOMAIN founder_embeddings) < MIN_CLUSTER_SIZE
    /\ pc' = "enrich"
    /\ run' = [run EXCEPT !.themes = 0]
    /\ UNCHANGED <<api, now, tables, queue, cur, obs>>

\* the failures enumerated: at most MaxFaults statements raise, in the last
\* run of the behaviour (the earlier runs build the tables it starts from)
FaultAllowed ==
    /\ run.n = MaxRunsFaults
    /\ Len(log) < MaxFaults

\* cluster_founders up to the loop over the clusters: HDBSCAN labels
ClusterBegin ==
    /\ pc = "cluster"
    /\ Cardinality(DOMAIN founder_embeddings) >= MIN_CLUSTER_SIZE
    /\ pc' = "cluster_loop"
    /\ queue' = Clusters(founder_embeddings)
    /\ cur' = [cur EXCEPT !.themes_upserted = 0, !.assigned = {}]
    /\ UNCHANGED <<api, now, tables, run, obs>>

\* variant: the links are inserted without the DELETE before them
KeepLinks(theme_id, members) ==
    founder_themes \cup {<<f, theme_id>> : f \in members}

\* DELETE FROM founder_themes WHERE theme_id = ?, then one INSERT per member
ReplaceLinks(theme_id, members) ==
    {l \in founder_themes : l[2] # theme_id}
    \cup {<<f, theme_id>> : f \in members}

\* one iteration of `for label, members in clusters.items()`
ClusterStep ==
    /\ pc = "cluster_loop"
    /\ queue # <<>>
    /\ LET members == Head(queue)
           existing_theme_id == _find_matching_theme(members)
           theme_id == IF existing_theme_id # 0 THEN existing_theme_id
                       ELSE Len(themes) + 1
       IN  /\ \E prior \in LatestHistory(theme_id, now + 1),
                 prior7 \in LatestHistory(theme_id, now - DAYS_7) :
                LET score == _compute_emergence_score(members, prior)
                    weekly_velocity ==
                        _compute_weekly_velocity(Cardinality(members), prior7)
                IN  themes' =
                       IF existing_theme_id # 0
                       THEN [themes EXCEPT ![theme_id] =
                                [@ EXCEPT !.builder_count = Cardinality(members),
                                          !.updated_at = now,
                                          !.emergence_score = score,
                                          !.weekly_velocity = weekly_velocity]]
                       ELSE Append(themes,
                                [id |-> theme_id,
                                 builder_count |-> Cardinality(members),
                                 emergence_score |-> score,
                                 weekly_velocity |-> weekly_velocity,
                                 first_detected |-> now, updated_at |-> now])
           /\ founder_themes' = ReplaceLinks(theme_id, members)
           /\ cur' = [cur EXCEPT !.themes_upserted = @ + 1,
                                 !.assigned = @ \cup {<<members, theme_id>>}]
    /\ queue' = Tail(queue)
    /\ UNCHANGED <<api, now, founders, founder_embeddings, stats_snapshots, signals,
                   scores, alert_log, theme_history, emergence_events, pc, run,
                   obs>>

\* an iteration of the loop raises before its first write (a failing SELECT
\* of _fallback_theme_name or _find_matching_theme): cluster_founders
\* raises, run_pipeline logs it inside the `with get_db()` block, which then
\* ends normally and commits what the earlier iterations wrote
ClusterStepRaises ==
    /\ pc = "cluster_loop"
    /\ queue # <<>>
    /\ FaultAllowed
    /\ log' = Append(log, <<"Clustering phase failed", cur.themes_upserted>>)
    /\ queue' = <<>>
    /\ pc' = "enrich"
    /\ UNCHANGED <<api, now, tables, run, cur, last_alert, last_cluster>>

RECURSIVE HistoryRows(_)
\* variant: only the themes a cluster of this run matched or created get a row
HistoryRowsMatched(t) ==
    SelectSeq([i \in 1..Len(themes) |->
                  [theme_id |-> themes[i].id,
                   emergence_score |-> themes[i].emergence_score,
                   builder_count |-> themes[i].builder_count,
                   captured_at |-> now]],
              LAMBDA r : r.theme_id >= t /\ themes[r.theme_id].updated_at = now)

\* update_theme_history: one theme_history row per row of themes
HistoryRows(t) ==
    IF t > Len(themes) THEN <<>>
    ELSE <<[theme_id |-> themes[t].id,
            emergence_score |-> themes[t].emergence_score,
            builder_count |-> themes[t].builder_count,
            captured_at |-> now]>> \o HistoryRows(t + 1)

\* variant: the history rows are appended although HDBSCAN raised
ClusterHdbscanFailsWithHistory ==
    /\ pc = "cluster"
    /\ Cardinality(DOMAIN founder_embeddings) >= MIN_CLUSTER_SIZE
    /\ FaultAllowed
    /\ log' = Append(log, <<"HDBSCAN clustering failed", 0>>)
    /\ theme_history' = theme_history \o HistoryRows(1)
    /\ run' = [run EXCEPT !.themes = 0]
    /\ pc' = "enrich"
    /\ UNCHANGED <<api, now, founders, founder_embeddings, stats_snapshots, signals,
                   scores, alert_log, themes, founder_themes, emergence_events,
                   queue, cur, last_alert, last_cluster>>

\* cluster_founders when HDBSCAN raises: the except clause logs it and
\* returns 0; no statement has written to a table yet
ClusterHdbscanFails ==
    /\ pc = "cluster"
    /\ Cardinality(DOMAIN founder_embeddings) >= MIN_CLUSTER_SIZE
    /\ FaultAllowed
    /\ log' = Append(log, <<"HDBSCAN clustering failed", 0>>)
    /\ run' = [run EXCEPT !.themes = 0]
    /\ pc' = "enrich"
    /\ UNCHANGED <<api, now, tables, queue, cur, last_alert, last_cluster>>

\* the loop is over: update_theme_history, return themes_upserted
ClusterEnd ==
    /\ pc = "cluster_loop"
    /\ queue = <<>>
    /\ theme_history' = theme_history \o HistoryRows(1)
    /\ run' = [run EXCEPT !.themes = cur.themes_upserted]
    /\ last_cluster' =
         [embeddings |-> founder_embeddings, assigned |-> cur.assigned,
          theme_ids |-> 1..Len(themes),
          prev |-> IF last_cluster = None THEN None
                   ELSE [embeddings |-> last_cluster.embeddings,
                         assigned |-> last_cluster.assigned,
                         theme_ids |-> last_cluster.theme_ids]]
    /\ pc' = "enrich"
    /\ UNCHANGED <<api, now, founders, founder_embeddings, stats_snapshots, signals,
                   scores, alert_log, themes, founder_themes, emergence_events,
                   queue, cur, last_alert, log>>

\* Phase 3 begins: founders = SELECT * FROM founders
LoadFounders ==
    /\ pc = "enrich"
    /\ pc' = "score"
    /\ queue' = IdSeq(DOMAIN founders)
    /\ UNCHANGED <<api, now, tables, run, cur, obs>>

\* Phase 3 when its SELECT over founders, or the SELECT over the signals of
\* the founder at the head of the queue, raises: neither is inside a try, so
\* the exception leaves the `with get_db()` block and run_pipeline.  get_db
\* calls rollback: sqlite3 drops the rows the phase has written, the Turso
\* connection has committed each statement and its rollback does nothing
ScorePhaseRaises ==
    /\ pc \in {"enrich", "score"}
    /\ pc = "score" => queue # <<>>
    /\ FaultAllowed
    /\ \E turso \in BOOLEAN :
         /\ scores' = IF turso THEN scores ELSE run.begin.scores
         /\ alert_log' = IF turso THEN alert_log ELSE run.begin.alert_log
    /\ log' = Append(log, <<"Pipeline run failed", 0>>)
    /\ queue' = <<>>
    /\ pc' = "raised"
    /\ UNCHANGED <<api, now, founders, founder_embeddings, stats_snapshots, signals,
                   themes, founder_themes, theme_history, emergence_events,
                   run, cur, last_alert, last_cluster>>

\* one iteration of the Phase 3 loop when score_founder raises: logged,
\* `continue`, neither founders_scored nor check_alerts for this founder
ScoreFounderRaises ==
    /\ pc = "score"
    /\ queue # <<>>
    /\ FaultAllowed
    /\ log' = Append(log, <<"Scoring failed for founder", Head(queue)>>)
    /\ queue' = Tail(queue)
    /\ UNCHANGED <<api, now, tables, pc, run, cur, last_alert, last_cluster>>

\* one iteration of the Phase 3 loop, first half: score_founder computes the
\* scores from the latest stats row, the founder row and the signals, and
\* save_score inserts the ScoreRecord
ScoreFounder ==
    /\ pc = "score"
    /\ queue # <<>>
    /\ LET fid == Head(queue)
       IN  \E latest_stats \in get_latest_stats(fid) :
             \E sc \in ComputeScores(latest_stats, founders[fid], SignalsOf(fid)) :
                 /\ scores' = Append(scores, ScoreRow(fid, sc, now))
                 /\ cur' = [cur EXCEPT !.fid = fid, !.scores = sc]
    /\ run' = [run EXCEPT !.founders_scored = @ + 1]
    /\ pc' = "alert"
    /\ UNCHANGED <<api, now, founders, founder_embeddings, stats_snapshots, signals,
                   alert_log, themes, founder_themes, theme_history,
                   emergence_events, queue, obs>>

\* one iteration of the Phase 3 loop, second half (Phase 4): check_alerts
\* for the founder just scored, in an environment of envs; when it raises,
\* run_pipeline logs the error and alerts_sent is not increased
CheckAlerts(envs) ==
    /\ pc = "alert"
    /\ \E prev \in get_previous_score(cur.fid), env \in envs :
         LET res == check_alerts(cur.fid, cur.scores, prev, env)
         IN  /\ alert_log' = alert_log \o res.entries
             /\ run' = IF res.raised THEN run
                       ELSE [run EXCEPT !.alerts_sent = @ + res.alerts_sent,
                                        !.returned = Append(@, res.alerts_sent)]
             /\ last_alert' = [founder_id |-> cur.fid, scores |-> cur.scores,
                               prev |-> prev, attempts |-> res.attempts,
                               delivered |-> res.delivered,
                               entries |-> res.entries,
                               ret |-> IF res.raised THEN -1
                                       ELSE res.alerts_sent]
             /\ log' = IF res.raised
                       THEN Append(log, <<"Alert check failed for founder", cur.fid>>)
                       ELSE log
    /\ pc' = "score"
    /\ queue' = Tail(queue)
    /\ cur' = NoCall
    /\ UNCHANGED <<api, now, founders, founder_embeddings, stats_snapshots, signals,
                   scores, themes, founder_themes, theme_history,
                   emergence_events, last_cluster>>

\* variant: the loop is left while founders are still to be scored
EndScoreEarly ==
    /\ pc = "score"
    /\ queue' = <<>>
    /\ pc' = "gate"
    /\ UNCHANGED <<api, now, tables, run, cur, obs>>

\* the Phase 3 loop has gone through every founder
EndScore ==
    /\ pc = "score"
    /\ queue = <<>>
    /\ pc' = "gate"
    /\ UNCHANGED <<api, now, tables, queue, run, cur, obs>>

\* Phase 3.5, enrich_qualified_founders without APIFY / PROXYCURL keys:
\* returns 0 before touching any table
GatePhase ==
    /\ pc = "gate"
    /\ pc' = "anomaly"
    /\ UNCHANGED <<api, now, tables, queue, run, cur, obs>>

\* ------------------------------------------------------------------------
\* enrichment/gate.py with APIFY_API_TOKEN set and PROXYCURL_API_KEY unset
\* ------------------------------------------------------------------------
ENRICHMENT_SCORE_THRESHOLD == 75
REFRESH_DAYS == 30
REFRESH_STATUSES == {"watching", "contacted"}

\* the value SQLite stores for CURRENT_TIMESTAMP: 'YYYY-MM-DD HH:MM:SS', a time
\* without a UTC offset
CurrentTimestamp == [at |-> now, utc |-> FALSE]

\* _needs_enrichment.  datetime.fromisoformat of a string without an offset is
\* a naive datetime; subtracting it from datetime.now(timezone.utc) raises
\* TypeError, and the except clause returns True
_needs_enrichment(founder, score) ==
    IF score < ENRICHMENT_SCORE_THRESHOLD THEN FALSE
    ELSE IF founder.enriched_at = None THEN TRUE
    ELSE IF founder.status \notin REFRESH_STATUSES THEN FALSE
    ELSE IF ~founder.enriched_at.utc THEN TRUE
    ELSE (now - founder.enriched_at.at) \div 24 >= REFRESH_DAYS

\* latest_score: SELECT composite FROM scores ORDER BY scored_at DESC LIMIT 1,
\* `or 0`; rows with the same scored_at are in no specified order
latest_score(founder_id) ==
    LET idx == RowsOf(scores, founder_id)
    IN  IF idx = {} THEN {0}
        ELSE {scores[i].composite : i \in
                {j \in idx : \A k \in idx :
                    scores[k].scored_at <= scores[j].scored_at}}

\* Phase 3.5 with a key configured: founders = SELECT f.*, latest_score
GateBegin ==
    /\ pc = "gate"
    /\ queue' = IdSeq(DOMAIN founders)
    /\ pc' = "gate_loop"
    /\ UNCHANGED <<api, now, tables, run, cur, obs>>

\* one iteration of the loop of enrich_qualified_founders: a founder who
\* needs enrichment has enriched_at set, by _save_enrichment when
\* enrich_twitter returned data and by the UPDATE of the else branch when not
GateFounder ==
    /\ pc = "gate_loop"
    /\ queue # <<>>
    /\ \E score \in latest_score(Head(queue)) :
         founders' =
            IF _needs_enrichment(founders[Head(queue)], score)
            THEN [founders EXCEPT ![Head(queue)].enriched_at = CurrentTimestamp]
            ELSE founders
    /\ queue' = Tail(queue)
    /\ UNCHANGED <<api, now, founder_embeddings, stats_snapshots, signals, scores,
                   alert_log, themes, founder_themes, theme_history,
                   emergence_events, pc, run, cur, obs>>

\* the loop is over: enrich_qualified_founders returns
GateEnd ==
    /\ pc = "gate_loop"
    /\ queue = <<>>
    /\ pc' = "anomaly"
    /\ UNCHANGED <<api, now, tables, queue, run, cur, obs>>

\* api.py update_status, between two runs
UpdateStatus(founder_id, status) ==
    /\ pc = "idle"
    /\ founder_id \in DOMAIN founders
    /\ founders[founder_id].status # status
    /\ founders' = [founders EXCEPT ![founder_id].status = status]
    /\ UNCHANGED <<api, now, founder_embeddings, stats_snapshots, signals, scores,
                   alert_log, themes, founder_themes, theme_history,
                   emergence_events, pc, queue, run, cur, obs>>

\* ------------------------------------------------------------------------
\* api.py: list_founders and update_status are sync endpoints, which the
\* server runs on worker threads, one per request in flight; they share the
\* module-level dict _cache.  One cache key is modelled.  An entry is
\* [data, fresh]: fresh stands for time.time() - entry["ts"] < CACHE_TTL.
\* ------------------------------------------------------------------------
NoRequest == [op |-> "none", pc |-> "idle", result |-> None, began_at |-> 0,
              hit |-> FALSE]

NoRequests == [r \in 1..MaxRequests |-> NoRequest]

\* the number of update_status calls that have committed their UPDATE, and of
\* those that have returned
Committed ==
    Cardinality({r \in DOMAIN requests :
                    /\ requests[r].op = "update_status"
                    /\ requests[r].pc \in {"clear", "returned"}})

Returned ==
    Cardinality({r \in DOMAIN requests :
                    /\ requests[r].op = "update_status"
                    /\ requests[r].pc = "returned"})

\* _cache_get: the data of the entry when there is one younger than CACHE_TTL
_cache_get ==
    IF _cache # None /\ _cache.fresh THEN _cache.data ELSE None

\* list_founders up to `if cached: return cached`; began_at records how many
\* writes had returned when the request arrived
list_founders_get(r) ==
    /\ requests[r].pc = "idle"
    /\ requests' =
         [requests EXCEPT ![r] =
            IF _cache_get # None
            THEN [op |-> "list_founders", pc |-> "returned",
                  result |-> _cache_get, began_at |-> Returned, hit |-> TRUE]
            ELSE [op |-> "list_founders", pc |-> "query", result |-> None,
                  began_at |-> Returned, hit |-> FALSE]]
    /\ UNCHANGED <<now, tables, pc, queue, run, cur, obs, _cache>>

\* list_founders, the `with get_db()` block: the rows as the database holds
\* them now; read_at records how many writes were committed at that moment
list_founders_query(r) ==
    /\ requests[r].pc = "query"
    /\ requests' =
         [requests EXCEPT ![r].pc = "set",
                          ![r].result =
                             [rows |-> [f \in DOMAIN founders |-> founders[f].status],
                              read_at |-> Committed]]
    /\ UNCHANGED <<now, tables, pc, queue, run, cur, obs, _cache>>

\* list_founders: _cache_set(cache_key, result); return result
list_founders_set(r) ==
    /\ requests[r].pc = "set"
    /\ _cache' = [data |-> requests[r].result, fresh |-> TRUE]
    /\ requests' = [requests EXCEPT ![r].pc = "returned"]
    /\ UNCHANGED <<now, tables, pc, queue, run, cur, obs>>

\* update_status, the `with get_db()` block: SELECT id, UPDATE founders SET
\* status, commit
update_status_write(r, founder_id, status) ==
    /\ requests[r].pc = "idle"
    /\ founder_id \in DOMAIN founders
    /\ founders' = [founders EXCEPT ![founder_id].status = status]
    /\ requests' = [requests EXCEPT ![r] =
                       [op |-> "update_status", pc |-> "clear", result |-> None,
                        began_at |-> Returned, hit |-> FALSE]]
    /\ UNCHANGED <<now, founder_embeddings, stats_snapshots, signals, scores,
                   alert_log, themes, founder_themes, theme_history,
                   emergence_events, pc, queue, run, cur, obs, _cache>>

\* update_status: _cache.clear(); return
update_status_clear(r) ==
    /\ requests[r].pc = "clear"
    /\ _cache' = None
    /\ requests' = [requests EXCEPT ![r].pc = "returned"]
    /\ UNCHANGED <<now, tables, pc, queue, run, cur, obs>>

\* CACHE_TTL seconds pass since the entry was set
CacheExpires ==
    /\ _cache # None
    /\ _cache.fresh
    /\ _cache' = [_cache EXCEPT !.fresh = FALSE]
    /\ UNCHANGED <<now, tables, pc, queue, run, cur, obs, requests>>

\* Phase 3.7, detect_anomalies: before = COUNT(*), founders = SELECT id
AnomalyBegin ==
    /\ pc = "anomaly"
    /\ cur' = [cur EXCEPT !.before = Len(emergence_events), !.evaluated = {}]
    /\ queue' = IdSeq(DOMAIN founders)
    /\ pc' = "anomaly_founders"
    /\ UNCHANGED <<api, now, tables, run, obs>>

AnomalyFounderPresence ==
    /\ pc = "anomaly_founders"
    /\ queue # <<>>
    /\ LET fid == Head(queue)
           sources == {signals[i].source : i \in RowsOf(signals, fid)}
       IN  emergence_events' =
              IF /\ {"github", "hn"} \subseteq sources
                 /\ \A i \in 1..Len(emergence_events) :
                       emergence_events[i].entity_id # fid
              THEN _fire_event(emergence_events, "cross_platform", fid,
                               "founder", None, None)
              ELSE emergence_events
    /\ queue' = Tail(queue)
    /\ cur' = [cur EXCEPT !.evaluated = @ \cup {<<"founder", Head(queue)>>}]
    /\ UNCHANGED <<api, now, founders, founder_embeddings, stats_snapshots, signals,
                   scores, alert_log, themes, founder_themes, theme_history,
                   pc, run, obs>>

\* one iteration of the per-founder loop of detect_anomalies
AnomalyFounder ==
    /\ pc = "anomaly_founders"
    /\ queue # <<>>
    /\ \E pair \in SnapshotPairs(Head(queue)) :
         emergence_events' =
             FounderChecks(emergence_events, Head(queue), pair[1], pair[2])
    /\ queue' = Tail(queue)
    /\ cur' = [cur EXCEPT !.evaluated = @ \cup {<<"founder", Head(queue)>>}]
    /\ UNCHANGED <<api, now, founders, founder_embeddings, stats_snapshots, signals,
                   scores, alert_log, themes, founder_themes, theme_history,
                   pc, run, obs>>

\* the exceptions of the per-founder loop: one of the three checks raises
\* after `done` of them have run (a failing INSERT or SELECT on
\* emergence_events); the except clause inside the loop logs it and the loop
\* goes on with the next founder
AnomalyFounderRaises ==
    /\ pc = "anomaly_founders"
    /\ queue # <<>>
    /\ FaultAllowed
    /\ \E pair \in SnapshotPairs(Head(queue)), done \in 0..2 :
         /\ pair[1] # None /\ pair[2] # None
         /\ LET fid == Head(queue)
                e1 == IF done >= 1
                      THEN _check_commit_velocity(emergence_events, fid,
                                                  pair[1], pair[2])
                      ELSE emergence_events
                e2 == IF done >= 2
                      THEN _check_star_spike(e1, fid, pair[1], pair[2])
                      ELSE e1
            IN  emergence_events' = e2
    /\ log' = Append(log, <<"Anomaly check failed for founder", Head(queue)>>)
    /\ queue' = Tail(queue)
    /\ UNCHANGED <<api, now, founders, founder_embeddings, stats_snapshots, signals,
                   scores, alert_log, themes, founder_themes, theme_history,
                   pc, run, cur, last_alert, last_cluster>>

\* _get_latest_snapshot or _get_prior_snapshot raises: the two SELECTs are
\* outside the try of the loop, detect_anomalies raises, and run_pipeline logs
\* the error; `anomalies` is never assigned
AnomalySnapshotRaises ==
    /\ pc = "anomaly_founders"
    /\ queue # <<>>
    /\ FaultAllowed
    /\ log' = Append(log, <<"Anomaly detection failed", Head(queue)>>)
    /\ queue' = <<>>
    /\ pc' = "done"
    /\ UNCHANGED <<api, now, tables, run, cur, last_alert, last_cluster>>

\* _check_new_themes, then themes = SELECT ... FROM themes of
\* _check_theme_velocity
AnomalyNewThemes ==
    /\ pc = "anomaly_founders"
    /\ queue = <<>>
    /\ emergence_events' = _check_new_themes(emergence_events, 1)
    /\ queue' = IdSeq(1..Len(themes))
    /\ pc' = "anomaly_velocity"
    /\ cur' = [cur EXCEPT !.evaluated =
                   @ \cup {<<"new_theme", t>> : t \in 1..Len(themes)}]
    /\ UNCHANGED <<api, now, founders, founder_embeddings, stats_snapshots, signals,
                   scores, alert_log, themes, founder_themes, theme_history,
                   run, obs>>

\* _check_new_themes over the themes t..k-1
RECURSIVE NewThemesBefore(_, _, _)
NewThemesBefore(events, t, k) ==
    IF t >= k THEN events
    ELSE IF /\ themes[t].first_detected > now - NEW_THEME_HOURS
            /\ ~_already_fired(events, t, "theme", "new_theme", WINDOW_NEW_THEME)
         THEN NewThemesBefore(
                  _fire_event(events, "new_theme", t, "theme", None,
                              themes[t].builder_count), t + 1, k)
         ELSE NewThemesBefore(events, t + 1, k)

\* _check_new_themes raises at theme k (a failing statement on
\* emergence_events): the one try around both theme checks catches it,
\* _check_theme_velocity is not called, detect_anomalies returns its count
AnomalyNewThemesRaises ==
    /\ pc = "anomaly_founders"
    /\ queue = <<>>
    /\ FaultAllowed
    /\ \E k \in 1..Len(themes) :
         /\ emergence_events' = NewThemesBefore(emergence_events, 1, k)
         /\ cur' = [cur EXCEPT !.evaluated =
                        @ \cup {<<"new_theme", t>> : t \in 1..(k - 1)}]
         /\ log' = Append(log, <<"Theme anomaly check failed", k>>)
         /\ run' = [run EXCEPT !.anomalies =
                        Len(NewThemesBefore(emergence_events, 1, k)) - cur.before]
    /\ pc' = "done"
    /\ UNCHANGED <<api, now, founders, founder_embeddings, stats_snapshots, signals,
                   scores, alert_log, themes, founder_themes, theme_history,
                   queue, last_alert, last_cluster>>

\* one iteration of the loop of _check_theme_velocity
AnomalyThemeVelocity ==
    /\ pc = "anomaly_velocity"
    /\ queue # <<>>
    /\ \E prior \in LatestHistory(Head(queue), now - DAYS_7) :
         emergence_events' = ThemeVelocityCheck(emergence_events, Head(queue), prior)
    /\ queue' = Tail(queue)
    /\ cur' = [cur EXCEPT !.evaluated = @ \cup {<<"theme_velocity", Head(queue)>>}]
    /\ UNCHANGED <<api, now, founders, founder_embeddings, stats_snapshots, signals,
                   scores, alert_log, themes, founder_themes, theme_history,
                   pc, run, obs>>

\* _check_theme_velocity raises at the theme at the head of the queue: the
\* try around the theme checks catches it, the remaining themes are skipped,
\* detect_anomalies returns its count
AnomalyThemeVelocityRaises ==
    /\ pc = "anomaly_velocity"
    /\ queue # <<>>
    /\ FaultAllowed
    /\ log' = Append(log, <<"Theme anomaly check failed", Head(queue)>>)
    /\ run' = [run EXCEPT !.anomalies = Len(emergence_events) - cur.before]
    /\ queue' = <<>>
    /\ pc' = "done"
    /\ UNCHANGED <<api, now, tables, cur, last_alert, last_cluster>>

\* detect_anomalies returns after - before; run_pipeline returns
AnomalyEnd ==
    /\ pc = "anomaly_velocity"
    /\ queue = <<>>
    /\ run' = [run EXCEPT !.anomalies = Len(emergence_events) - cur.before]
    /\ pc' = "done"
    /\ UNCHANGED <<api, now, tables, queue, cur, obs>>

\* variant: the duplicate check also compares the source
add_signal_per_source(founder_id, sig) ==
    LET dup == {i \in 1..Len(signals) :
                    /\ signals[i].founder_id = founder_id
                    /\ signals[i].label = sig.label
                    /\ signals[i].source = sig.source
                    /\ signals[i].detected_at > now - 24}
    IN  /\ pc = "idle"
        /\ founder_id \in DOMAIN founders
        /\ Len(signals) < MaxSignals
        /\ signals' = IF dup = {} THEN Append(signals, SignalRow(founder_id, sig, now))
                       ELSE signals
        /\ cur' = [call |-> "add_signal", founder_id |-> founder_id, sig |-> sig,
                    at |-> now]
        /\ UNCHANGED <<api, now, founders, founder_embeddings, stats_snapshots, scores,
                       alert_log, themes, founder_themes, theme_history,
                       emergence_events, pc, queue, run, obs>>

\* add_signal: SELECT id FROM signals WHERE founder_id = ? AND label = ? AND
\* detected_at > datetime('now', '-1 day'); INSERT when there is no such row,
\* detected_at DEFAULT CURRENT_TIMESTAMP
add_signal(founder_id, sig) ==
    LET dup == {i \in 1..Len(signals) :
                    /\ signals[i].founder_id = founder_id
                    /\ signals[i].label = sig.label
                    /\ signals[i].detected_at > now - 24}
    IN  /\ pc = "idle"
        /\ founder_id \in DOMAIN founders
        /\ Len(signals) < MaxSignals
        /\ signals' = IF dup = {} THEN Append(signals, SignalRow(founder_id, sig, now))
                       ELSE signals
        /\ cur' = [call |-> "add_signal", founder_id |-> founder_id, sig |-> sig,
                    at |-> now]
        /\ UNCHANGED <<api, now, founders, founder_embeddings, stats_snapshots, scores,
                       alert_log, themes, founder_themes, theme_history,
                       emergence_events, pc, queue, run, obs>>

\* time passes between two calls of a scraper
Wait(hours) ==
    /\ pc = "idle"
    /\ now + hours <= MaxClock
    /\ now' = now + hours
    /\ UNCHANGED <<api, tables, pc, queue, run, cur, obs>>

\* run_scheduled sleeps, or the process is down, until the next run
Tick(hours) ==
    /\ pc = "done"
    /\ now' = now + hours
    /\ pc' = "idle"
    /\ UNCHANGED <<api, tables, queue, run, cur, obs>>
\* ------------------------------------------------------------------------
\* Inputs: the stats, founder rows and signal lists the scrapers deliver
\* ------------------------------------------------------------------------
S(stars, commits, repos, karma, subs, top, up, launches, fol) ==
    [github_stars |-> stars, github_commits_90d |-> commits,
     github_repos |-> repos, hn_karma |-> karma, hn_submissions |-> subs,
     hn_top_score |-> top, ph_upvotes |-> up, ph_launches |-> launches,
     followers |-> fol]

StatsP70 == S(2000, 0, 5, 500, 5, 500, 100, 1, 0)
StatsQ54 == S(2000, 4, 0, 500, 8, 500, 0, 0, 0)
StatsQ56 == S(2000, 20, 0, 500, 3, 500, 0, 0, 0)
StatsP90 == S(2000, 300, 25, 500, 15, 500, 800, 0, 1000)
StatsHuge == S(1000000, 1000000, 1000000, 1000000, 1000000, 1000000,
               1000000, 1000000, 1000000)
StatsMid == S(100, 100, 5, 5000, 1, 100, 100, 1, 15000)

StatsInputs == {StatsP70, StatsQ54, StatsQ56, StatsP90, StatsHuge, StatsMid}

BioRich == {"PhD", "Ex-Google", "CTO", "serial founder", "sales", "OpenAI",
            "staff engineer", "Fintech", "payments", "security", "infra",
            "health", "former", "advisor", "led", "previously",
            "y combinator", "tech lead", "principal"}
BioTech == {"developer"}
BioBiz == {"marketing"}

Founder(bio, domain, stage, connections, company) ==
    [bio |-> bio, domain |-> domain, stage |-> stage,
     yc_alumni_connections |-> connections, company |-> company,
     status |-> "to_contact", enriched_at |-> None]

InfoRich == Founder(BioRich, {"Fintech"}, "Pre-seed", 5, {})
InfoTech == Founder(BioTech, {}, "Series B", 0, {})
InfoBiz == Founder(BioBiz, {"logistics"}, "", 50, {})
InfoEmpty == Founder({}, {}, "Unknown", 1, {})

InfoInputs == {InfoRich, InfoTech, InfoBiz, InfoEmpty}

Sig(source, label, strong) == [source |-> source, label |-> label, strong |-> strong]

SigsNone == <<>>
SigsFive == <<Sig("github", {"MRR"}, TRUE), Sig("hn", {"launch"}, TRUE),
              Sig("producthunt", {"launch"}, TRUE), Sig("github", {"post"}, FALSE),
              Sig("hn", {"post"}, FALSE)>>
SigsMany == [i \in 1..12 |->
                Sig(<<"github", "hn", "producthunt">>[((i - 1) % 3) + 1],
                    {"MRR"}, TRUE)]
SigsRaise == <<Sig("hn", {"Raised"}, FALSE), Sig("hn", {"Raised", "carried"}, FALSE),
               Sig("github", {"Raised"}, FALSE)>>

SignalInputs == {SigsNone, SigsFive, SigsMany, SigsRaise}

\* the signals table holding the list sigs for one founder
SignalRows(founder_id, sigs, detected_at) ==
    [i \in 1..Len(sigs) |-> SignalRow(founder_id, sigs[i], detected_at)]

\* ------------------------------------------------------------------------
\* SpecScore: Phase 3 and 4 for one founder over every input
\* ------------------------------------------------------------------------
InitScore ==
    /\ now = 0
    /\ \E info \in InfoInputs : founders = (1 :> info)
    /\ \E st \in StatsInputs \cup {None} :
         stats_snapshots = IF st = None THEN <<>> ELSE <<StatsRow(1, st, 0)>>
    /\ \E sigs \in SignalInputs : signals = SignalRows(1, sigs, 0)
    /\ founder_embeddings = <<>>
    /\ scores = <<>>
    /\ alert_log = <<>>
    /\ themes = <<>>
    /\ founder_themes = {}
    /\ theme_history = <<>>
    /\ emergence_events = <<>>
    /\ pc = "enrich"
    /\ queue = <<>>
    /\ run = NoRun
    /\ cur = NoCall
    /\ last_alert = None
    /\ last_cluster = None
    /\ log = <<>>
    /\ _cache = None
    /\ requests = NoRequests

NextScore ==
    \/ LoadFounders
    \/ ScoreFounder
    \/ CheckAlerts(AlertEnvs)
    \/ EndScore

SpecScore == InitScore /\ [][NextScore]_vars


\* ------------------------------------------------------------------------
\* SpecAlerts: pipeline runs an hour apart over founders whose stats move
\* the composite across the alert threshold and the execution velocity by
\* more and by less than the spike delta; every delivery outcome
\* ------------------------------------------------------------------------
AlertStats == {StatsQ54, StatsQ56, StatsP90}

\* Slack delivers; email delivers or is not configured
DeliveringEnvs ==
    {[slack1 |-> "sent", email1 |-> e, slack2 |-> "sent", email2 |-> e] :
        e \in {"sent", "fail"}}

\* the tables either empty but for founder 1, or as a first run over founder
\* 1 with StatsP70 has left them an hour ago
InitAlerts ==
    /\ founders = (1 :> InfoRich)
    /\ signals = SignalRows(1, SigsFive, 0)
    /\ \/ /\ now = 0
          /\ stats_snapshots = <<>>
          /\ scores = <<>>
       \/ /\ now = 1
          /\ stats_snapshots = <<StatsRow(1, StatsP70, 0)>>
          /\ \E sc \in ComputeScores(StatsP70, InfoRich, signals) :
               scores = <<ScoreRow(1, sc, 0)>>
    /\ founder_embeddings = <<>>
    /\ alert_log = <<>>
    /\ themes = <<>>
    /\ founder_themes = {}
    /\ theme_history = <<>>
    /\ emergence_events = <<>>
    /\ pc = "idle"
    /\ queue = <<>>
    /\ run = NoRun
    /\ cur = NoCall
    /\ last_alert = None
    /\ last_cluster = None
    /\ log = <<>>
    /\ _cache = None
    /\ requests = NoRequests

NextAlerts ==
    \/ StartRun(MaxRunsAlerts)
    \/ \E st \in AlertStats : SaveStats(1, st)
    \/ EndScrape
    \/ EmbedAll(TRUE)
    \/ ClusterTooFew
    \/ LoadFounders
    \/ ScoreFounder
    \/ CheckAlerts(DeliveringEnvs)
    \/ EndScore
    \/ GatePhase
    \/ AnomalyBegin
    \/ AnomalyFounder
    \/ AnomalyNewThemes
    \/ AnomalyEnd
    \/ Tick(1)

SpecAlerts == InitAlerts /\ [][NextAlerts]_vars

\* ------------------------------------------------------------------------
\* SpecEmergence: pipeline runs, half a day or a week and a half apart, over
\* six founders: three share one company text, three another and come to
\* share the first one after the other, founder 1's GitHub and HN counters jump; no alert channel is
\* configured
\* ------------------------------------------------------------------------
StatsA4 == S(10, 4, 5, 500, 5, 50, 100, 1, 0)
StatsA100 == S(10, 100, 5, 500, 5, 50, 100, 1, 0)
StatsA199 == S(10, 199, 5, 500, 5, 50, 100, 1, 0)
StatsA200 == S(30, 200, 5, 500, 5, 120, 100, 1, 0)

Acme == {"acme"}
Beta == {"beta"}

InfoAcme == Founder({}, {}, "Unknown", 0, Acme)
InfoBeta == Founder({}, {}, "Unknown", 0, Beta)

\* _send_slack and _send_email return False: no webhook, no SMTP account
UnconfiguredEnvs ==
    {[slack1 |-> "fail", email1 |-> "fail", slack2 |-> "fail", email2 |-> "fail"]}

EmergenceTicks == {12, 180}

InitEmergence ==
    /\ now = 1
    /\ founders = [f \in 1..6 |-> IF f <= 3 THEN InfoAcme ELSE InfoBeta]
    /\ signals = <<>>
    /\ stats_snapshots = <<StatsRow(1, StatsA100, 0)>>
    /\ scores = <<>>
    /\ founder_embeddings = <<>>
    /\ alert_log = <<>>
    /\ themes = <<>>
    /\ founder_themes = {}
    /\ theme_history = <<>>
    /\ emergence_events = <<>>
    /\ pc = "idle"
    /\ queue = <<>>
    /\ run = NoRun
    /\ cur = NoCall
    /\ last_alert = None
    /\ last_cluster = None
    /\ log = <<>>
    /\ _cache = None
    /\ requests = NoRequests

NextEmergence ==
    \/ StartRun(MaxRunsEmergence)
    \/ SaveStats(1, StatsA200)
    \/ \E f \in {4, 5, 6} :
         /\ f = 4 \/ founders[f - 1].company = Acme
         /\ UpdateFounder(f, Acme)
    \/ EndScrape
    \/ EmbedAll(TRUE)
    \/ ClusterBegin
    \/ ClusterStep
    \/ ClusterEnd
    \/ LoadFounders
    \/ ScoreFounder
    \/ CheckAlerts(UnconfiguredEnvs)
    \/ EndScore
    \/ GatePhase
    \/ AnomalyBegin
    \/ AnomalyFounder
    \/ AnomalyNewThemes
    \/ AnomalyThemeVelocity
    \/ AnomalyEnd
    \/ \E h \in EmergenceTicks : Tick(h)

SpecEmergence == InitEmergence /\ [][NextEmergence]_vars

\* ------------------------------------------------------------------------
\* SpecMembers: pipeline runs over six founders who all start at one company;
\* between runs founders 6, 5 and 4, in that order, may move to another one,
\* so that the cluster first shrinks and then splits in two
\* ------------------------------------------------------------------------
InitMembers ==
    /\ now = 1
    /\ founders = [f \in 1..6 |-> InfoAcme]
    /\ signals = <<>>
    /\ stats_snapshots = <<>>
    /\ scores = <<>>
    /\ founder_embeddings = <<>>
    /\ alert_log = <<>>
    /\ themes = <<>>
    /\ founder_themes = {}
    /\ theme_history = <<>>
    /\ emergence_events = <<>>
    /\ pc = "idle"
    /\ queue = <<>>
    /\ run = NoRun
    /\ cur = NoCall
    /\ last_alert = None
    /\ last_cluster = None
    /\ log = <<>>
    /\ _cache = None
    /\ requests = NoRequests

NextMembers ==
    \/ StartRun(MaxRunsMembers)
    \/ \E f \in {4, 5, 6} :
         /\ IF f = 6 THEN TRUE ELSE founders[f + 1].company = Beta
         /\ UpdateFounder(f, Beta)
    \/ EndScrape
    \/ EmbedAll(TRUE)
    \/ ClusterBegin
    \/ ClusterStep
    \/ ClusterEnd
    \/ LoadFounders
    \/ ScoreFounder
    \/ CheckAlerts(UnconfiguredEnvs)
    \/ EndScore
    \/ GatePhase
    \/ AnomalyBegin
    \/ AnomalyFounder
    \/ AnomalyNewThemes
    \/ AnomalyThemeVelocity
    \/ AnomalyEnd
    \/ \E h \in EmergenceTicks : Tick(h)

SpecMembers == InitMembers /\ [][NextMembers]_vars

\* ------------------------------------------------------------------------
\* SpecAnomaly: pipeline runs, half a day or a day apart, over one founder
\* with signals from GitHub, HN and Product Hunt whose 90-day commit count
\* the scrapers report as 4, 100, 199 or 200; no alert channel is configured
\* ------------------------------------------------------------------------
AnomalyStats == {StatsA4, StatsA100, StatsA199, StatsA200}

AnomalyTicks == {12, 24}

InitAnomaly ==
    /\ now = 0
    /\ founders = (1 :> InfoRich)
    /\ signals = SignalRows(1, SigsFive, 0)
    /\ stats_snapshots = <<>>
    /\ scores = <<>>
    /\ founder_embeddings = <<>>
    /\ alert_log = <<>>
    /\ themes = <<>>
    /\ founder_themes = {}
    /\ theme_history = <<>>
    /\ emergence_events = <<>>
    /\ pc = "idle"
    /\ queue = <<>>
    /\ run = NoRun
    /\ cur = NoCall
    /\ last_alert = None
    /\ last_cluster = None
    /\ log = <<>>
    /\ _cache = None
    /\ requests = NoRequests

NextAnomaly ==
    \/ StartRun(MaxRunsAnomaly)
    \/ \E st \in AnomalyStats : SaveStats(1, st)
    \/ EndScrape
    \/ EmbedAll(TRUE)
    \/ ClusterTooFew
    \/ LoadFounders
    \/ ScoreFounder
    \/ CheckAlerts(UnconfiguredEnvs)
    \/ EndScore
    \/ GatePhase
    \/ AnomalyBegin
    \/ AnomalyFounder
    \/ AnomalyNewThemes
    \/ AnomalyEnd
    \/ \E h \in AnomalyTicks : Tick(h)

SpecAnomaly == InitAnomaly /\ [][NextAnomaly]_vars

\* ------------------------------------------------------------------------
\* SpecStars: pipeline runs, half a day or a day apart, over one founder whose
\* two snapshots hold star counts on either side of the thresholds of
\* _check_star_spike; commits and HN scores are zero
\* ------------------------------------------------------------------------
Stars(n) == S(n, 0, 0, 0, 0, 0, 0, 0, 0)

StarPriors == {84, 85, 99, 100}
StarLatests == {99, 100, 114, 115}

InitStars ==
    /\ now = 1
    /\ founders = (1 :> InfoAcme)
    /\ signals = <<>>
    /\ \E p \in StarPriors, c \in StarLatests :
         stats_snapshots = <<StatsRow(1, Stars(p), 0), StatsRow(1, Stars(c), 1)>>
    /\ scores = <<>>
    /\ founder_embeddings = <<>>
    /\ alert_log = <<>>
    /\ themes = <<>>
    /\ founder_themes = {}
    /\ theme_history = <<>>
    /\ emergence_events = <<>>
    /\ pc = "idle"
    /\ queue = <<>>
    /\ run = NoRun
    /\ cur = NoCall
    /\ last_alert = None
    /\ last_cluster = None
    /\ log = <<>>
    /\ _cache = None
    /\ requests = NoRequests

NextStars ==
    \/ StartRun(MaxRunsStars)
    \/ EndScrape
    \/ EmbedAll(TRUE)
    \/ ClusterTooFew
    \/ LoadFounders
    \/ ScoreFounder
    \/ CheckAlerts(UnconfiguredEnvs)
    \/ EndScore
    \/ GatePhase
    \/ AnomalyBegin
    \/ AnomalyFounder
    \/ AnomalyNewThemes
    \/ AnomalyEnd
    \/ \E h \in AnomalyTicks : Tick(h)

SpecStars == InitStars /\ [][NextStars]_vars

\* ------------------------------------------------------------------------
\* SpecVelocity: pipeline runs, half a day or a week and a half apart, over a
\* cluster of four founders that founders 5 and then 6 may join, so that the
\* theme grows by a quarter or by one half
\* ------------------------------------------------------------------------
InitVelocity ==
    /\ now = 1
    /\ founders = [f \in 1..6 |-> IF f <= 4 THEN InfoAcme ELSE InfoBeta]
    /\ signals = <<>>
    /\ stats_snapshots = <<>>
    /\ scores = <<>>
    /\ founder_embeddings = <<>>
    /\ alert_log = <<>>
    /\ themes = <<>>
    /\ founder_themes = {}
    /\ theme_history = <<>>
    /\ emergence_events = <<>>
    /\ pc = "idle"
    /\ queue = <<>>
    /\ run = NoRun
    /\ cur = NoCall
    /\ last_alert = None
    /\ last_cluster = None
    /\ log = <<>>
    /\ _cache = None
    /\ requests = NoRequests

NextVelocity ==
    \/ StartRun(MaxRunsVelocity)
    \/ \E f \in {5, 6} :
         /\ IF f = 5 THEN TRUE ELSE founders[5].company = Acme
         /\ UpdateFounder(f, Acme)
    \/ EndScrape
    \/ EmbedAll(TRUE)
    \/ ClusterBegin
    \/ ClusterStep
    \/ ClusterEnd
    \/ LoadFounders
    \/ ScoreFounder
    \/ CheckAlerts(UnconfiguredEnvs)
    \/ EndScore
    \/ GatePhase
    \/ AnomalyBegin
    \/ AnomalyFounder
    \/ AnomalyNewThemes
    \/ AnomalyThemeVelocity
    \/ AnomalyEnd
    \/ \E h \in EmergenceTicks : Tick(h)

SpecVelocity == InitVelocity /\ [][NextVelocity]_vars

\* ------------------------------------------------------------------------
\* SpecGate: pipeline runs, half a day or 30 days apart, with the Twitter
\* enrichment key configured, over founder 1 who scores 90 and founder 2 who
\* scores 10; between runs the API may set the status of founder 1
\* ------------------------------------------------------------------------
GateTicks == {12, 720}

GateStatuses == {"to_contact", "watching", "contacted", "pass"}

InitGate ==
    /\ now = 1
    /\ founders = (1 :> InfoRich) @@ (2 :> InfoAcme)
    /\ signals = SignalRows(1, SigsFive, 0)
    /\ stats_snapshots = <<StatsRow(1, StatsP90, 0)>>
    /\ scores = <<>>
    /\ founder_embeddings = <<>>
    /\ alert_log = <<>>
    /\ themes = <<>>
    /\ founder_themes = {}
    /\ theme_history = <<>>
    /\ emergence_events = <<>>
    /\ pc = "idle"
    /\ queue = <<>>
    /\ run = NoRun
    /\ cur = NoCall
    /\ last_alert = None
    /\ last_cluster = None
    /\ log = <<>>
    /\ _cache = None
    /\ requests = NoRequests

NextGate ==
    \/ \E status \in GateStatuses : UpdateStatus(1, status)
    \/ StartRun(MaxRunsGate)
    \/ EndScrape
    \/ EmbedAll(TRUE)
    \/ ClusterTooFew
    \/ LoadFounders
    \/ ScoreFounder
    \/ CheckAlerts(UnconfiguredEnvs)
    \/ EndScore
    \/ GateBegin
    \/ GateFounder
    \/ GateEnd
    \/ AnomalyBegin
    \/ AnomalyFounder
    \/ AnomalyNewThemes
    \/ AnomalyEnd
    \/ \E h \in GateTicks : Tick(h)

SpecGate == InitGate /\ [][NextGate]_vars

\* ------------------------------------------------------------------------
\* SpecCount: the emergence score of a theme of n builders and of n + 1
\* builders, for a velocity term and a growth term (milli-points) that stay
\* the same; queue holds the inputs, cur.scores the results
\* ------------------------------------------------------------------------
VelocityTerms == {0, 3333, 20000, 40000}
GrowthTerms == {0, 15000, 16667, 30000}

InitCount ==
    /\ now = 1
    /\ founders = <<>>
    /\ signals = <<>>
    /\ stats_snapshots = <<>>
    /\ scores = <<>>
    /\ founder_embeddings = <<>>
    /\ alert_log = <<>>
    /\ themes = <<>>
    /\ founder_themes = {}
    /\ theme_history = <<>>
    /\ emergence_events = <<>>
    /\ pc = "idle"
    /\ \E n \in 0..MaxBuilders, v \in VelocityTerms, g \in GrowthTerms :
         queue = <<n, v, g>>
    /\ run = NoRun
    /\ cur = NoCall
    /\ last_alert = None
    /\ last_cluster = None
    /\ log = <<>>
    /\ _cache = None
    /\ requests = NoRequests

\* the score is computed for queue[1] builders and for one more
ApplyEmergenceScore ==
    /\ pc = "idle"
    /\ cur' = [cur EXCEPT !.scores =
                  [count_score |-> CountScore(queue[1]),
                   count_score_next |-> CountScore(queue[1] + 1),
                   total |-> EmergenceTotal(CountScore(queue[1]),
                                            queue[2], queue[3]),
                   total_next |-> EmergenceTotal(CountScore(queue[1] + 1),
                                                 queue[2], queue[3])]]
    /\ pc' = "done"
    /\ UNCHANGED <<api, now, tables, queue, run, obs>>

NextCount == ApplyEmergenceScore

SpecCount == InitCount /\ [][NextCount]_vars

\* ------------------------------------------------------------------------
\* SpecJoin: pipeline runs over a cluster of three founders and four founders
\* of companies of their own, who may join the three one after the other
\* between runs: the next cluster shares all, half or less than half of its
\* members with the theme of the three
\* ------------------------------------------------------------------------
SoloCompany == (4 :> {"delta"}) @@ (5 :> {"epsilon"}) @@ (6 :> {"zeta"})
               @@ (7 :> {"eta"})

InitJoin ==
    /\ now = 1
    /\ founders = [f \in 1..7 |->
                     IF f <= 3 THEN InfoAcme
                     ELSE Founder({}, {}, "Unknown", 0, SoloCompany[f])]
    /\ signals = <<>>
    /\ stats_snapshots = <<>>
    /\ scores = <<>>
    /\ founder_embeddings = <<>>
    /\ alert_log = <<>>
    /\ themes = <<>>
    /\ founder_themes = {}
    /\ theme_history = <<>>
    /\ emergence_events = <<>>
    /\ pc = "idle"
    /\ queue = <<>>
    /\ run = NoRun
    /\ cur = NoCall
    /\ last_alert = None
    /\ last_cluster = None
    /\ log = <<>>
    /\ _cache = None
    /\ requests = NoRequests

NextJoin ==
    \/ StartRun(MaxRunsJoin)
    \/ \E f \in 4..7 :
         /\ IF f = 4 THEN TRUE ELSE founders[f - 1].company = Acme
         /\ UpdateFounder(f, Acme)
    \/ EndScrape
    \/ EmbedAll(TRUE)
    \/ ClusterBegin
    \/ ClusterStep
    \/ ClusterEnd
    \/ LoadFounders
    \/ ScoreFounder
    \/ CheckAlerts(UnconfiguredEnvs)
    \/ EndScore
    \/ GatePhase
    \/ AnomalyBegin
    \/ AnomalyFounder
    \/ AnomalyNewThemes
    \/ AnomalyThemeVelocity
    \/ AnomalyEnd
    \/ Tick(12)

SpecJoin == InitJoin /\ [][NextJoin]_vars

\* ------------------------------------------------------------------------
\* SpecSignals: the scrapers call add_signal for two founders, with labels that
\* repeat under the same and under another source, 12 or 23 hours apart
\* ------------------------------------------------------------------------
SignalCalls == {Sig("github", {"MRR"}, TRUE), Sig("hn", {"MRR"}, FALSE),
                Sig("hn", {"launch"}, TRUE)}

SignalWaits == {12, 23}

InitSignals ==
    /\ now = 1
    /\ founders = [f \in 1..2 |-> InfoAcme]
    /\ signals = <<>>
    /\ stats_snapshots = <<>>
    /\ scores = <<>>
    /\ founder_embeddings = <<>>
    /\ alert_log = <<>>
    /\ themes = <<>>
    /\ founder_themes = {}
    /\ theme_history = <<>>
    /\ emergence_events = <<>>
    /\ pc = "idle"
    /\ queue = <<>>
    /\ run = NoRun
    /\ cur = NoCall
    /\ last_alert = None
    /\ last_cluster = None
    /\ log = <<>>
    /\ _cache = None
    /\ requests = NoRequests

NextSignals ==
    \/ \E f \in 1..2, sig \in SignalCalls : add_signal(f, sig)
    \/ \E hours \in SignalWaits : Wait(hours)

SpecSignals == InitSignals /\ [][NextSignals]_vars

\* ------------------------------------------------------------------------
\* SpecLost: the runs of SpecAlerts with channels that deliver or do not
\* (webhook or SMTP settings missing, or the request fails): _send_slack and
\* _send_email return False
\* ------------------------------------------------------------------------
LostEnvs ==
    {[slack1 |-> s, email1 |-> e, slack2 |-> s, email2 |-> e] :
        s \in {"sent", "fail"}, e \in {"sent", "fail"}}

NextLost ==
    \/ StartRun(MaxRunsAlerts)
    \/ \E st \in AlertStats : SaveStats(1, st)
    \/ EndScrape
    \/ EmbedAll(TRUE)
    \/ ClusterTooFew
    \/ LoadFounders
    \/ ScoreFounder
    \/ CheckAlerts(LostEnvs)
    \/ EndScore
    \/ GatePhase
    \/ AnomalyBegin
    \/ AnomalyFounder
    \/ AnomalyNewThemes
    \/ AnomalyEnd
    \/ Tick(1)

SpecLost == InitAlerts /\ [][NextLost]_vars

\* ------------------------------------------------------------------------
\* SpecCache: up to MaxRequests API requests, each a list_founders or an
\* update_status of founder 1, served concurrently
\* ------------------------------------------------------------------------
InitCache ==
    /\ now = 1
    /\ founders = (1 :> InfoAcme)
    /\ signals = <<>>
    /\ stats_snapshots = <<>>
    /\ scores = <<>>
    /\ founder_embeddings = <<>>
    /\ alert_log = <<>>
    /\ themes = <<>>
    /\ founder_themes = {}
    /\ theme_history = <<>>
    /\ emergence_events = <<>>
    /\ pc = "idle"
    /\ queue = <<>>
    /\ run = NoRun
    /\ cur = NoCall
    /\ last_alert = None
    /\ last_cluster = None
    /\ log = <<>>
    /\ _cache = None
    /\ requests = NoRequests

NextCache ==
    \/ \E r \in 1..MaxRequests : list_founders_get(r)
    \/ \E r \in 1..MaxRequests : list_founders_query(r)
    \/ \E r \in 1..MaxRequests : list_founders_set(r)
    \/ \E r \in 1..MaxRequests, status \in REFRESH_STATUSES :
         update_status_write(r, 1, status)
    \/ \E r \in 1..MaxRequests : update_status_clear(r)
    \/ CacheExpires

SpecCache == InitCache /\ [][NextCache]_vars

\* ------------------------------------------------------------------------
\* SpecCheck: Phase 3 and 4 of one run over two founders, in every
\* environment of the deliveries: founder 1 was scored an hour ago, or is
\* new, and has a new stats row; founder 2 is new
\* ------------------------------------------------------------------------
InitCheck ==
    /\ now = 1
    /\ founders = (1 :> InfoRich) @@ (2 :> InfoRich)
    /\ signals = SignalRows(1, SigsFive, 0) \o SignalRows(2, SigsFive, 0)
    /\ \E p \in {None, StatsP70, StatsP90}, c \in AlertStats,
          q \in {None, StatsP90} :
         /\ stats_snapshots =
               (IF p = None THEN <<>> ELSE <<StatsRow(1, p, 0)>>)
               \o <<StatsRow(1, c, 1)>>
               \o (IF q = None THEN <<>> ELSE <<StatsRow(2, q, 1)>>)
         /\ IF p = None THEN scores = <<>>
            ELSE \E sc \in ComputeScores(p, InfoRich, SignalsOf(1)) :
                    scores = <<ScoreRow(1, sc, 0)>>
    /\ founder_embeddings = <<>>
    /\ alert_log = <<>>
    /\ themes = <<>>
    /\ founder_themes = {}
    /\ theme_history = <<>>
    /\ emergence_events = <<>>
    /\ pc = "enrich"
    /\ queue = <<>>
    /\ run = [NoRun EXCEPT !.n = 1]
    /\ cur = NoCall
    /\ last_alert = None
    /\ last_cluster = None
    /\ log = <<>>
    /\ _cache = None
    /\ requests = NoRequests

NextCheck ==
    \/ LoadFounders
    \/ ScoreFounder
    \/ CheckAlerts(AlertEnvs)
    \/ EndScore

SpecCheck == InitCheck /\ [][NextCheck]_vars

\* ------------------------------------------------------------------------
\* SpecFaults: a pipeline run over six founders in two companies, founders 1
\* and 2 with two stats snapshots each, in which a statement may raise: in
\* HDBSCAN, in the cluster loop, in Phase 3, in the checks of detect_anomalies
\* ------------------------------------------------------------------------
InitFaults ==
    /\ now = 1
    /\ founders = [f \in 1..6 |-> IF f <= 3 THEN InfoAcme ELSE InfoBeta]
    /\ signals = <<>>
    /\ stats_snapshots = <<StatsRow(1, StatsA100, 0), StatsRow(2, StatsA100, 0),
                           StatsRow(1, StatsA200, 1), StatsRow(2, StatsA200, 1)>>
    /\ scores = <<>>
    /\ founder_embeddings = <<>>
    /\ alert_log = <<>>
    /\ themes = <<>>
    /\ founder_themes = {}
    /\ theme_history = <<>>
    /\ emergence_events = <<>>
    /\ pc = "idle"
    /\ queue = <<>>
    /\ run = NoRun
    /\ cur = NoCall
    /\ last_alert = None
    /\ last_cluster = None
    /\ log = <<>>
    /\ _cache = None
    /\ requests = NoRequests

NextFaults ==
    \/ StartRun(MaxRunsFaults)
    \/ EndScrape
    \/ \E ok \in BOOLEAN : EmbedAll(ok)
    \/ ClusterTooFew
    \/ ClusterHdbscanFails
    \/ ClusterBegin
    \/ ClusterStep
    \/ ClusterStepRaises
    \/ ClusterEnd
    \/ LoadFounders
    \/ ScorePhaseRaises
    \/ ScoreFounder
    \/ ScoreFounderRaises
    \/ CheckAlerts(UnconfiguredEnvs)
    \/ EndScore
    \/ GatePhase
    \/ AnomalyBegin
    \/ AnomalyFounder
    \/ AnomalyFounderRaises
    \/ AnomalySnapshotRaises
    \/ AnomalyNewThemes
    \/ AnomalyNewThemesRaises
    \/ AnomalyThemeVelocity
    \/ AnomalyThemeVelocityRaises
    \/ AnomalyEnd
    \/ \E h \in EmergenceTicks : Tick(h)

SpecFaults == InitFaults /\ [][NextFaults]_vars

\* ------------------------------------------------------------------------
\* Properties of the scores table
\* ------------------------------------------------------------------------
ScoreFields == {"founder_quality", "execution_velocity", "market_conviction",
                "early_traction", "deal_availability", "composite"}

\* C6: every ScoreRecord written by score_founder has its five sub-scores and
\* its composite in [0,100], and the five DEFAULT_WEIGHTS (in hundredths) sum
\* to exactly 1.0
C6_ScoresInRange ==
    /\ \A i \in 1..Len(scores) :
         \A k \in ScoreFields : scores[i][k] \in 0..100
    /\ DEFAULT_WEIGHTS.founder_quality + DEFAULT_WEIGHTS.execution_velocity
       + DEFAULT_WEIGHTS.market_conviction + DEFAULT_WEIGHTS.early_traction
       + DEFAULT_WEIGHTS.deal_availability = 100

\* a ScoreRecord was written from counters far above every baseline: the
\* caps are what keeps its sub-scores at 100
C6_Witness ==
    /\ Len(scores) = 1
    /\ stats_snapshots # <<>>
    /\ stats_snapshots[1].github_commits_90d > 300
    /\ founders[1].yc_alumni_connections > 5
    /\ scores[1].execution_velocity = 100
    /\ scores[1].early_traction = 100

\* ------------------------------------------------------------------------
\* Properties of emergence_events
\* ------------------------------------------------------------------------

\* C1: emergence_events never holds two rows with the same (entity_id,
\* entity_type, event_type) whose detected_at values are closer together than
\* the dedup window of the event type: 72 hours for new_theme, 24 hours for
\* commit_spike, star_spike, hn_spike and theme_spike
C1_DedupWindow ==
    \A i, j \in 1..Len(emergence_events) :
        LET a == emergence_events[i]
            b == emergence_events[j]
            window == IF a.event_type = "new_theme" THEN 72 ELSE 24
        IN  (/\ i < j
             /\ a.entity_id = b.entity_id
             /\ a.entity_type = b.entity_type
             /\ a.event_type = b.event_type)
            => b.detected_at - a.detected_at >= window

\* the second run ended half a day after the first fired commit_spike for
\* founder 1: the two latest snapshots still qualify and no second row exists
C1_Witness ==
    /\ pc = "done"
    /\ run.n = 2
    /\ Len(stats_snapshots) = 2
    /\ stats_snapshots[1].captured_at < stats_snapshots[2].captured_at
    /\ stats_snapshots[1].github_commits_90d = 100
    /\ stats_snapshots[2].github_commits_90d = 200
    /\ Cardinality({i \in 1..Len(emergence_events) :
                      /\ emergence_events[i].event_type = "commit_spike"
                      /\ emergence_events[i].entity_id = 1}) = 1
    /\ \E i \in 1..Len(emergence_events) :
         /\ emergence_events[i].event_type = "commit_spike"
         /\ emergence_events[i].detected_at = now - 12

\* C4: a commit_spike event is fired only from a prior 90-day commit count >= 5
\* and a current count >= 2.0 times the prior one (so never from prior 4, and
\* not from 100 -> 199); and when a run of detect_anomalies ends over a founder
\* whose two latest snapshots are such a pair (100 -> 200), a commit_spike event
\* of the founder exists within the last 24 hours: the one just fired, or the
\* one that suppressed it
C4_CommitSpikeGuard ==
    /\ \A i \in 1..Len(emergence_events) :
         emergence_events[i].event_type = "commit_spike"
         => /\ emergence_events[i].delta_before >= 5
            /\ emergence_events[i].delta_after
                 >= 2 * emergence_events[i].delta_before
    /\ pc = "done"
       => \A f \in DOMAIN founders :
            LET idx == RowsOf(stats_snapshots, f)
                at(i) == stats_snapshots[i].captured_at
                commits(i) == stats_snapshots[i].github_commits_90d
            IN  \A i, j \in idx :
                  (/\ at(j) < at(i)
                   /\ \A k \in idx \ {i, j} : at(k) < at(j)
                   /\ commits(j) >= 5
                   /\ commits(i) >= 2 * commits(j))
                  => \E e \in 1..Len(emergence_events) :
                       /\ emergence_events[e].event_type = "commit_spike"
                       /\ emergence_events[e].entity_type = "founder"
                       /\ emergence_events[e].entity_id = f
                       /\ emergence_events[e].detected_at > now - 24

\* a commit_spike event fired from prior 100 and current 200, ratio 2.0
C4_Witness ==
    /\ pc = "done"
    /\ \E i \in 1..Len(emergence_events) :
         /\ emergence_events[i].event_type = "commit_spike"
         /\ emergence_events[i].delta_before = 100
         /\ emergence_events[i].delta_after = 200
         /\ emergence_events[i].detected_at = now

\* the composite of the founder's latest ScoreRecord is at or above 60 and
\* the one of the ScoreRecord before it is below
CrossedSixty(founder_id) ==
    LET h == ScoreHistory(founder_id)
        n == Len(h)
    IN  n >= 2 /\ h[n - 1].composite < 60 /\ h[n].composite >= 60

StatsSpikes == {"commit_spike", "star_spike", "hn_spike"}

SignalSources(founder_id) ==
    {signals[i].source : i \in RowsOf(signals, founder_id)}

C5_ThemeContinuity ==
    (/\ last_cluster # None
     /\ last_cluster.prev # None
     /\ last_cluster.prev.embeddings = last_cluster.embeddings)
    => /\ last_cluster.theme_ids = last_cluster.prev.theme_ids
       /\ last_cluster.assigned = last_cluster.prev.assigned

\* cluster_founders has run twice over the same six embeddings, two clusters
\* each time
C5_Witness ==
    /\ last_cluster # None
    /\ last_cluster.prev # None
    /\ last_cluster.prev.embeddings = last_cluster.embeddings
    /\ Cardinality(last_cluster.assigned) = 2
    /\ Len(themes) = 2

\* ------------------------------------------------------------------------
\* Properties of check_alerts
\* ------------------------------------------------------------------------

\* the last check_alerts call attempted a delivery of alert_type on channel
Attempted(alert_type, channel) ==
    /\ last_alert # None
    /\ \E i \in 1..Len(last_alert.attempts) :
         last_alert.attempts[i] = <<alert_type, channel>>

\* the last check_alerts call has ended and the scores table is as it saw it
CallEnded == last_alert # None /\ pc # "alert"

\* the ScoreRecord at position k of a history is at or above the threshold
\* and the one before it is absent or below
CrossesAt(h, k) ==
    /\ h[k].composite >= ALERT_SCORE_THRESHOLD
    /\ k = 1 \/ h[k - 1].composite < ALERT_SCORE_THRESHOLD

\* C2: with Slack delivering, check_alerts dispatches 'High Score Threshold'
\* exactly when the composite just scored is >= ALERT_SCORE_THRESHOLD and the
\* previous ScoreRecord of the founder is absent or below it; every such row
\* of alert_log was sent in a run whose ScoreRecord made that crossing; and
\* for the composites 70, 90, 90 it was dispatched once, in the second run
C2_HighScoreOnCrossing ==
    /\ CallEnded
       => LET h == ScoreHistory(last_alert.founder_id)
          IN  (Attempted(HighScore, "slack") \/ Attempted(HighScore, "email"))
              <=> CrossesAt(h, Len(h))
    /\ \A i \in 1..Len(alert_log) :
         alert_log[i].alert_type = HighScore
         => LET h == ScoreHistory(alert_log[i].founder_id)
            IN  \E k \in 1..Len(h) :
                  h[k].scored_at = alert_log[i].sent_at /\ CrossesAt(h, k)
    /\ LET h == ScoreHistory(1)
       IN  (/\ CallEnded
            /\ Len(h) = 3
            /\ h[1].composite = 70 /\ h[2].composite = 90 /\ h[3].composite = 90)
           => /\ Cardinality({i \in 1..Len(alert_log) :
                                /\ alert_log[i].alert_type = HighScore
                                /\ alert_log[i].channel = "slack"}) = 1
              /\ \A i \in 1..Len(alert_log) :
                   alert_log[i].alert_type = HighScore
                   => alert_log[i].sent_at = h[2].scored_at

\* three runs scored founder 1 at 70, 90 and 90; the third check_alerts call
\* has ended and dispatched nothing
C2_Witness ==
    /\ pc = "done"
    /\ Len(ScoreHistory(1)) = 3
    /\ ScoreHistory(1)[1].composite = 70
    /\ ScoreHistory(1)[2].composite = 90
    /\ ScoreHistory(1)[3].composite = 90
    /\ last_alert # None
    /\ last_alert.attempts = <<>>
    /\ \E i \in 1..Len(alert_log) :
         /\ alert_log[i].alert_type = HighScore
         /\ alert_log[i].sent_at = ScoreHistory(1)[2].scored_at

\* C3 as stated: check_alerts dispatches 'Execution Velocity Spike' exactly
\* when the founder has a previous ScoreRecord and the execution velocity rose
\* by ALERT_MOMENTUM_SPIKE or more since it
C3_VelocitySpikeExactly ==
    CallEnded
    => LET h == ScoreHistory(last_alert.founder_id)
           n == Len(h)
       IN  (Attempted(VelocitySpike, "slack") \/ Attempted(VelocitySpike, "email"))
           <=> /\ n >= 2
               /\ h[n].execution_velocity - h[n - 1].execution_velocity
                    >= ALERT_MOMENTUM_SPIKE

\* the number of elements of a sequence that equal x
Count(seq, x) == Cardinality({i \in 1..Len(seq) : seq[i] = x})

\* C7 as stated: for each trigger, a Slack attempt is followed by an email
\* attempt whatever the Slack delivery or the recording of its AlertLogEntry
\* did, and each successful delivery has appended exactly one AlertLogEntry
\* for its channel
C7_ChannelsIndependent ==
    CallEnded
    => \A alert_type \in {HighScore, VelocitySpike} :
         /\ Attempted(alert_type, "slack") => Attempted(alert_type, "email")
         /\ \A channel \in {"slack", "email"} :
              Count(last_alert.delivered, <<alert_type, channel>>)
              = Cardinality({i \in 1..Len(last_alert.entries) :
                               /\ last_alert.entries[i].alert_type = alert_type
                               /\ last_alert.entries[i].channel = channel})

\* C8: a check_alerts call that returns, returns the number of its successful
\* deliveries, which is the number of AlertLogEntry rows it appended and lies
\* in 0..4; alerts_sent of run_pipeline is the sum of the returned counts, and
\* when every call of the run returned it is the number of rows the run added
\* to alert_log
C8_ReturnCountsRows ==
    /\ (last_alert # None /\ last_alert.ret # -1)
       => /\ last_alert.ret = Len(last_alert.delivered)
          /\ last_alert.ret = Len(last_alert.entries)
          /\ last_alert.ret \in 0..4
    /\ run.alerts_sent = SumSeq(run.returned)
    /\ (pc # "alert" /\ Len(run.returned) = run.founders_scored)
       => run.alerts_sent = Cardinality({i \in 1..Len(alert_log) :
                                           alert_log[i].sent_at = now})

\* both founders were checked: four rows for founder 1 (both triggers, both
\* channels), two for founder 2, alerts_sent 6
C8_Witness ==
    /\ pc = "gate"
    /\ run.returned = <<4, 2>>
    /\ run.alerts_sent = 6
    /\ Len(alert_log) = 6

\* ------------------------------------------------------------------------
\* Properties of a run in which a statement raises
\* ------------------------------------------------------------------------

\* the current run has logged message about the entity id
Logged(message, id) ==
    \E i \in 1..Len(log) : log[i] = <<message, id>>

\* C11 as stated: when detect_anomalies is over, every founder and every theme
\* has had its checks evaluated, but for the one whose evaluation raised, and
\* that one is in the log
C11_FaultIsolation ==
    pc = "done"
    => /\ \A f \in DOMAIN founders :
            \/ <<"founder", f>> \in cur.evaluated
            \/ Logged("Anomaly check failed for founder", f)
            \/ Logged("Anomaly detection failed", f)
       /\ \A t \in 1..Len(themes) :
            \/ Logged("Theme anomaly check failed", t)
            \/ /\ <<"new_theme", t>> \in cur.evaluated
               /\ <<"theme_velocity", t>> \in cur.evaluated

\* the current run has logged message, about any entity
LoggedAny(message) ==
    \E i \in 1..Len(log) : log[i][1] = message

\* C12 as stated: a phase that failed part-way has left none of its rows; the
\* tables it writes are as they were when the run began (no other phase of the
\* run writes them)
C12_PhaseAtomic ==
    /\ LoggedAny("Clustering phase failed")
       => /\ themes = run.begin.themes
          /\ founder_themes = run.begin.founder_themes
    /\ pc = "raised" => scores = run.begin.scores
    /\ LoggedAny("Anomaly detection failed")
       => emergence_events = run.begin.emergence_events

\* C13 as stated: no run of run_pipeline ends by raising to its caller
C13_NeverRaises ==
    pc # "raised"

\* C17: once HDBSCAN has raised in a run, the run is past the clustering phase
\* with 0 themes counted, and themes, founder_themes and theme_history are as
\* they were when the run began
C17_HdbscanFailureIsNoOp ==
    Logged("HDBSCAN clustering failed", 0)
    => /\ themes = run.begin.themes
       /\ founder_themes = run.begin.founder_themes
       /\ theme_history = run.begin.theme_history
       /\ run.themes = 0
       /\ pc \notin {"scrape", "embed", "cluster", "cluster_loop"}

\* a run in which HDBSCAN raised over existing themes went on to its end
C17_Witness ==
    /\ Logged("HDBSCAN clustering failed", 0)
    /\ pc = "done"
    /\ themes # <<>>
    /\ theme_history # <<>>

\* ------------------------------------------------------------------------
\* Properties of the clustering phase
\* ------------------------------------------------------------------------

\* founders linked to the theme in founder_themes
LinkedFounders(theme_id) ==
    {l[1] : l \in {k \in founder_themes : k[2] = theme_id}}

\* C14: after a completed run of cluster_founders, and until the next one
\* writes, the founder_themes rows of every theme the run matched or created
\* are exactly the members of the cluster it was matched with or created for
C14_MembershipIsCluster ==
    (last_cluster # None /\ pc # "cluster_loop")
    => \A a \in last_cluster.assigned : LinkedFounders(a[2]) = a[1]

\* a run has matched a theme again with a cluster that lost a member
C14_Witness ==
    /\ pc = "enrich"
    /\ last_cluster # None
    /\ last_cluster.prev # None
    /\ \E a \in last_cluster.assigned, b \in last_cluster.prev.assigned :
         /\ a[2] = b[2]
         /\ a[1] # b[1]
         /\ a[1] \subseteq b[1]
         /\ LinkedFounders(a[2]) = a[1]

\* ------------------------------------------------------------------------
\* Properties of the dedup window and of the order of the phases
\* ------------------------------------------------------------------------

\* every event of the triple is of the current run or at least `window` hours
\* old
WindowElapsed(entity_id, entity_type, event_type, window) ==
    \A i \in 1..Len(emergence_events) :
        (/\ emergence_events[i].entity_id = entity_id
         /\ emergence_events[i].entity_type = entity_type
         /\ emergence_events[i].event_type = event_type)
        => \/ emergence_events[i].detected_at = now
           \/ emergence_events[i].detected_at <= now - window

\* the current run has inserted an event of the triple
FiredNow(entity_id, entity_type, event_type) ==
    \E i \in 1..Len(emergence_events) :
        /\ emergence_events[i].entity_id = entity_id
        /\ emergence_events[i].entity_type = entity_type
        /\ emergence_events[i].event_type = event_type
        /\ emergence_events[i].detected_at = now

\* C15: when a run of detect_anomalies has ended, every founder whose two
\* latest snapshots (unambiguous) satisfy the condition of commit_spike,
\* star_spike or hn_spike, and every theme whose builder count grew by half over
\* its latest history row older than 7 days, has an event of that type inserted
\* by this run if each earlier event of the triple is at least 24 hours old
C15_RefiresAfterWindow ==
    pc = "done"
    => /\ \A f \in DOMAIN founders : \A pair \in SnapshotPairs(f) :
            (/\ Cardinality(SnapshotPairs(f)) = 1
             /\ pair[1] # None
             /\ pair[2] # None)
            => LET latest == pair[1]
                   prior == pair[2]
               IN  /\ (/\ prior.github_commits_90d >= 5
                       /\ latest.github_commits_90d >= 2 * prior.github_commits_90d
                       /\ WindowElapsed(f, "founder", "commit_spike", 24))
                      => FiredNow(f, "founder", "commit_spike")
                   /\ (/\ latest.github_stars - prior.github_stars >= 15
                       /\ prior.github_stars < 100
                       /\ WindowElapsed(f, "founder", "star_spike", 24))
                      => FiredNow(f, "founder", "star_spike")
                   /\ (/\ latest.hn_top_score >= 100
                       /\ latest.hn_top_score > prior.hn_top_score
                       /\ WindowElapsed(f, "founder", "hn_spike", 24))
                      => FiredNow(f, "founder", "hn_spike")
       /\ \A t \in 1..Len(themes) : \A prior \in LatestHistory(t, now - DAYS_7) :
            (/\ Cardinality(LatestHistory(t, now - DAYS_7)) = 1
             /\ prior # None
             /\ prior.builder_count > 0
             /\ 2 * (themes[t].builder_count - prior.builder_count)
                    >= prior.builder_count
             /\ WindowElapsed(t, "theme", "theme_spike", 24))
            => FiredNow(t, "theme", "theme_spike")

\* a run has fired hn_spike for founder 1 again, more than a day after the
\* event of an earlier run
C15_Witness ==
    /\ pc = "done"
    /\ \E i, j \in 1..Len(emergence_events) :
         /\ i < j
         /\ emergence_events[i].event_type = "hn_spike"
         /\ emergence_events[j].event_type = "hn_spike"
         /\ emergence_events[i].entity_id = 1
         /\ emergence_events[j].entity_id = 1
         /\ emergence_events[i].detected_at <= now - 24
         /\ emergence_events[j].detected_at = now

\* the founder has a scores row written by the current run
ScoredNow(f) ==
    \E i \in 1..Len(scores) :
        scores[i].founder_id = f /\ scores[i].scored_at = now

\* C16 as stated: the alert phase begins only when the score phase has
\* completed for all founders
C16_ScoreBeforeAlert ==
    pc = "alert" => \A f \in DOMAIN founders : ScoredNow(f)

\* the phases of run_pipeline in the order of its code; Phases 3 and 4 are one
\* loop
PhaseRank(p) ==
    CASE p = "idle" -> 0
      [] p = "scrape" -> 1
      [] p = "embed" -> 2
      [] p \in {"cluster", "cluster_loop"} -> 3
      [] p = "enrich" -> 4
      [] p \in {"score", "alert"} -> 5
      [] p \in {"gate", "gate_loop"} -> 6
      [] p \in {"anomaly", "anomaly_founders", "anomaly_velocity"} -> 7
      [] OTHER -> 8

\* C16, amended: within a run the phases never go back; a phase is left only
\* when no founder, cluster or theme is left for it; scoring and alerting are
\* one pass in which each founder is scored, then checked for alerts, before
\* the next founder is scored, and the pass ends with every founder scored
C16_PhasesInOrder ==
    [][/\ pc' # "idle" => PhaseRank(pc') >= PhaseRank(pc)
       /\ PhaseRank(pc') > PhaseRank(pc) => queue = <<>>
       /\ (pc = "score" /\ queue # <<>>)
          => /\ pc' = "alert"
             /\ cur'.fid = Head(queue)
             /\ ScoredNow(Head(queue))'
       /\ pc = "alert" => (pc' = "score" /\ queue' = Tail(queue))
       /\ (pc = "score" /\ pc' = "gate")
          => \A f \in DOMAIN founders : ScoredNow(f)]_vars

\* the second founder has been scored and awaits its alert check while later
\* founders have no score of this run yet
C16_Witness ==
    /\ pc = "alert"
    /\ cur.fid = 2
    /\ ScoredNow(1)
    /\ ScoredNow(2)
    /\ \E f \in DOMAIN founders : ~ScoredNow(f)

\* C18: the step that ends a run of cluster_founders after its loop over the
\* clusters appends to theme_history exactly one row per row of themes, with
\* that theme's emergence_score and builder_count; no other step of the
\* pipeline writes theme_history, and no step changes a row it holds
C18_HistoryAppended ==
    [][/\ Len(theme_history') >= Len(theme_history)
       /\ \A i \in 1..Len(theme_history) : theme_history'[i] = theme_history[i]
       /\ IF pc = "cluster_loop" /\ pc' = "enrich"
          THEN /\ Len(theme_history') = Len(theme_history) + Len(themes)
               /\ \A t \in 1..Len(themes) :
                    \E i \in (Len(theme_history) + 1)..Len(theme_history') :
                        /\ theme_history'[i].theme_id = themes[t].id
                        /\ theme_history'[i].emergence_score = themes[t].emergence_score
                        /\ theme_history'[i].builder_count = themes[t].builder_count
                        /\ theme_history'[i].captured_at = now
          ELSE theme_history' = theme_history]_vars

\* cluster_founders has ended and a theme that no cluster of the run matched
\* has its row of this run
C18_Witness ==
    /\ pc = "enrich"
    /\ last_cluster # None
    /\ \E t \in 1..Len(themes) :
         /\ \A a \in last_cluster.assigned : a[2] # t
         /\ themes[t].updated_at < now
         /\ \E i \in 1..Len(theme_history) :
              /\ theme_history[i].theme_id = t
              /\ theme_history[i].captured_at = now
              /\ theme_history[i].builder_count = themes[t].builder_count

\* ------------------------------------------------------------------------
\* Properties of the theme and star checks of detect_anomalies
\* ------------------------------------------------------------------------

\* an earlier run inserted an event of the triple less than `window` hours ago
FiredWithin(entity_id, entity_type, event_type, window) ==
    \E i \in 1..Len(emergence_events) :
        /\ emergence_events[i].entity_id = entity_id
        /\ emergence_events[i].entity_type = entity_type
        /\ emergence_events[i].event_type = event_type
        /\ emergence_events[i].detected_at < now
        /\ emergence_events[i].detected_at > now - window

\* C19: once _check_new_themes has run, the themes for which the run has
\* inserted a new_theme event are exactly those first detected less than 24
\* hours ago that had no new_theme event of the last 72 hours
C19_NewThemeFires ==
    pc \in {"anomaly_velocity", "done"}
    => \A t \in 1..Len(themes) :
          FiredNow(t, "theme", "new_theme")
          <=> /\ themes[t].first_detected > now - 24
              /\ ~FiredWithin(t, "theme", "new_theme", 72)

\* a run half a day after the one that detected a theme has ended: the theme
\* is still new and its event of the first run suppressed a second one
C19_Witness ==
    /\ pc = "done"
    /\ run.n = 2
    /\ \E t \in 1..Len(themes) :
         /\ themes[t].first_detected = now - 12
         /\ FiredWithin(t, "theme", "new_theme", 72)
         /\ ~FiredNow(t, "theme", "new_theme")
    /\ \E t \in 1..Len(themes) :
         /\ themes[t].first_detected = now
         /\ FiredNow(t, "theme", "new_theme")

PriorWeekRows(t) ==
    {i \in 1..Len(theme_history) :
        /\ theme_history[i].theme_id = t
        /\ theme_history[i].captured_at < now - 168
        /\ \A j \in 1..Len(theme_history) :
              (/\ theme_history[j].theme_id = t
               /\ theme_history[j].captured_at < now - 168)
              => theme_history[j].captured_at <= theme_history[i].captured_at}

\* C21: when a run of detect_anomalies has ended, the run has inserted a
\* theme_spike event for a theme exactly when the theme has a most recent
\* history row older than 7 days (one only, so that it is determined) with a
\* non-zero builder_count, the theme's builder_count exceeds that count by at
\* least one half of it, and no theme_spike event of the theme is less than 24
\* hours old
C21_ThemeSpikeExactly ==
    pc = "done"
    => \A t \in 1..Len(themes) :
          Cardinality(PriorWeekRows(t)) <= 1
          => (FiredNow(t, "theme", "theme_spike")
              <=> /\ \E i \in PriorWeekRows(t) :
                        /\ theme_history[i].builder_count > 0
                        /\ 2 * (themes[t].builder_count
                                  - theme_history[i].builder_count)
                              >= theme_history[i].builder_count
                  /\ ~FiredWithin(t, "theme", "theme_spike", 24))

\* the theme went from four to six builders over more than a week and the run
\* has fired theme_spike for it
C21_Witness ==
    /\ pc = "done"
    /\ \E t \in 1..Len(themes) :
         /\ themes[t].builder_count = 6
         /\ \E i \in PriorWeekRows(t) : theme_history[i].builder_count = 4
         /\ FiredNow(t, "theme", "theme_spike")

\* ------------------------------------------------------------------------
\* Properties of the enrichment gate
\* ------------------------------------------------------------------------

\* C22 as stated: no step enriches a founder (writes enriched_at) whose
\* enriched_at is less than 30 days old
C22_NoEarlyReenrichment ==
    [][\A f \in DOMAIN founders :
          (/\ founders[f].enriched_at # None
           /\ founders'[f].enriched_at # founders[f].enriched_at)
          => now - founders[f].enriched_at.at >= 30 * 24]_vars

\* ------------------------------------------------------------------------
\* Properties of the emergence score and of theme matching
\* ------------------------------------------------------------------------

\* C23: with the velocity term and the growth term the same, one builder more
\* never lowers the count term, which stays within 0..80, nor the emergence
\* score
C23_CountTermMonotone ==
    pc = "done"
    => /\ cur.scores.count_score_next >= cur.scores.count_score
       /\ cur.scores.count_score >= 0
       /\ cur.scores.count_score_next <= 80 * Milli
       /\ cur.scores.total_next >= cur.scores.total

\* the count term has grown from 9 to 10 builders and reached its cap of 80,
\* where it stays for 11 builders
C23_Witness ==
    /\ pc = "done"
    /\ queue[1] = 10
    /\ cur.scores.count_score = 80 * Milli
    /\ cur.scores.count_score_next = 80 * Milli
    /\ cur.scores.total_next = cur.scores.total

\* members of the cluster that have a founder_themes row of the theme
Overlap(members, t) ==
    Cardinality({f \in members : <<f, t>> \in founder_themes})

\* the greatest overlap of the cluster with a theme, 0 without themes
BestOverlap(members) ==
    IF themes = <<>> THEN 0
    ELSE LET t == CHOOSE u \in 1..Len(themes) :
                      \A w \in 1..Len(themes) :
                          Overlap(members, w) <= Overlap(members, u)
         IN  Overlap(members, t)

C25_NoRepeatWithinDay ==
    \A i, j \in 1..Len(signals) :
        (/\ i < j
         /\ signals[i].founder_id = signals[j].founder_id
         /\ signals[i].label = signals[j].label)
        => signals[j].detected_at - signals[i].detected_at >= 24

\* a label was inserted a second time exactly 24 hours after the first, and a
\* third call with it 12 hours later inserted nothing
C25_Witness ==
    /\ cur # NoCall
    /\ cur.call = "add_signal"
    /\ cur.at = now
    /\ \E i, j \in 1..Len(signals) :
         /\ i < j
         /\ signals[i].founder_id = cur.founder_id
         /\ signals[j].founder_id = cur.founder_id
         /\ signals[i].label = cur.sig.label
         /\ signals[j].label = cur.sig.label
         /\ signals[j].detected_at = signals[i].detected_at + 24
         /\ signals[j].detected_at = now - 12
    /\ \A i \in 1..Len(signals) : signals[i].detected_at < now

\* C26: while cluster_founders loops over the clusters of one run, the clusters
\* processed so far have pairwise different theme ids, themes_upserted equals
\* the number of those ids, and every such theme still has exactly the
\* founder_themes rows written for its cluster
C26_ClustersResolveApart ==
    pc = "cluster_loop"
    => /\ \A a, b \in cur.assigned : a[2] = b[2] => a = b
       /\ cur.themes_upserted = Cardinality({a[2] : a \in cur.assigned})
       /\ \A a \in cur.assigned :
              {f \in DOMAIN founders : <<f, a[2]>> \in founder_themes} = a[1]

\* both clusters of a run were, before it, made of members of theme 1 only: the
\* first kept theme 1 and the second got a theme of its own
C26_Witness ==
    /\ pc = "cluster_loop"
    /\ queue = <<>>
    /\ last_cluster # None
    /\ last_cluster.assigned = {<<{1, 2, 3, 4, 5, 6}, 1>>}
    /\ cur.assigned = {<<{1, 2, 3}, 1>>, <<{4, 5, 6}, 2>>}
    /\ cur.themes_upserted = 2

\* C27: when detect_anomalies is about to compare the latest and the prior
\* snapshot of a founder, the two rows were written by two different runs (a
\* run writes all its rows at one clock value, two runs at different ones)
C27_PairSpansRuns ==
    pc = "anomaly_founders"
    => \A i \in 1..Len(queue) :
           \A pair \in SnapshotPairs(queue[i]) :
               (pair[1] # None /\ pair[2] # None)
               => pair[1].captured_at # pair[2].captured_at

\* the alert_log rows of the founder and type sent at or after a time
SentSince(founder_id, alert_type, at) ==
    {i \in 1..Len(alert_log) :
        /\ alert_log[i].founder_id = founder_id
        /\ alert_log[i].alert_type = alert_type
        /\ alert_log[i].sent_at >= at}

\* C28: a check_alerts call in which no channel delivered 'High Score
\* Threshold' wrote no AlertLogEntry of that type; a call for a composite at
\* or above the threshold whose previous ScoreRecord was at or above it too
\* attempted no such delivery; so when the run of a crossing left no
\* AlertLogEntry and the composite stayed at or above the threshold since,
\* alert_log has no 'High Score Threshold' row from the crossing on
C28_LostCrossingStaysLost ==
    /\ CallEnded
       => LET h == ScoreHistory(last_alert.founder_id)
              n == Len(h)
          IN  /\ (\A i \in 1..Len(last_alert.delivered) :
                      last_alert.delivered[i][1] # HighScore)
                 => \A i \in 1..Len(last_alert.entries) :
                        last_alert.entries[i].alert_type # HighScore
              /\ (/\ n >= 2
                  /\ h[n - 1].composite >= ALERT_SCORE_THRESHOLD
                  /\ h[n].composite >= ALERT_SCORE_THRESHOLD)
                 => /\ ~Attempted(HighScore, "slack")
                    /\ ~Attempted(HighScore, "email")
    /\ pc # "alert"
       => \A f \in DOMAIN founders :
            LET h == ScoreHistory(f)
            IN  \A k \in 1..Len(h) :
                  (/\ CrossesAt(h, k)
                   /\ \A j \in k..Len(h) : h[j].composite >= ALERT_SCORE_THRESHOLD
                   /\ \A i \in SentSince(f, HighScore, h[k].scored_at) :
                          alert_log[i].sent_at # h[k].scored_at)
                  => SentSince(f, HighScore, h[k].scored_at) = {}

\* the composite crossed the threshold in the first run, whose channels all
\* failed, and stayed at 90 in the second run: nothing was attempted there and
\* alert_log is empty
C28_Witness ==
    /\ pc = "done"
    /\ run.n = 2
    /\ Len(ScoreHistory(1)) >= 2
    /\ CrossesAt(ScoreHistory(1), Len(ScoreHistory(1)) - 1)
    /\ ScoreHistory(1)[Len(ScoreHistory(1))].composite = 90
    /\ ScoreHistory(1)[Len(ScoreHistory(1))].scored_at = now
    /\ last_alert # None
    /\ last_alert.attempts = <<>>
    /\ alert_log = <<>>

\* C29: when cluster_founders has completed, every founder has founder_themes
\* rows of at most one theme
C29_OneThemePerFounder ==
    pc = "enrich"
    => \A f \in DOMAIN founders :
           Cardinality({t \in 1..Len(themes) : <<f, t>> \in founder_themes}) <= 1

\* C30: a list_founders request answered from _cache returns data that was
\* read from the database after every update_status that had returned when
\* the request arrived
C30_HitNotOlderThanWrite ==
    \A r \in DOMAIN requests :
        (/\ requests[r].op = "list_founders"
         /\ requests[r].pc = "returned"
         /\ requests[r].hit)
        => requests[r].result.read_at >= requests[r].began_at

====
